---- MODULE Spec2Model ----
(***************************************************************************)
(* Rotation state of the multi-tenant proxy gateway.                       *)
(*                                                                         *)
(* Two variants of the program share the rotation engine                   *)
(* (getCurrentProxy / rotateProxy / closeUserTunnels) and differ in how    *)
(* the per-client maps are rebuilt:                                        *)
(*   - src/server.js: hot reload of the configuration file                 *)
(*     (loadClientsConfig) plus the /block and /unblock endpoints;         *)
(*     specification SpecServer.                                           *)
(*   - src/enhanced-proxy-server.js: admin API (/api/add-client, ...)      *)
(*     followed by initializeClients; specification SpecEnhanced.          *)
(***************************************************************************)
EXTENDS Integers, Sequences, FiniteSets, TLC

\* ------------------------------------------------------------------------
\* Bounds of the model
\* ------------------------------------------------------------------------

\* longest upstream list a configuration gives to one client
MaxProxies == 3

\* highest RotationCounter (and rotateProxy call count) explored per client
MaxRotations == 2

\* handlers that may be suspended at an await at the same time
MaxInflight == 1

\* CONNECT requests that get as far as opening an upstream connection
MaxTunnels == 2

\* rotation requests of one client suspended in their delay at the same time
MaxOverlap == 2

\* ------------------------------------------------------------------------
\* Universe of inputs
\* ------------------------------------------------------------------------

Clients == {"alice", "bob"}

Upstreams == {"U1", "U2", "U3"}

SecretOf == [c \in Clients |-> IF c = "alice" THEN "secret1" ELSE "secret2"]

Passwords == {"secret1", "secret2"}

\* JavaScript null / undefined as returned to a caller
null == "null"

\* marks a suspended rotation whose `list` is still the client's queue
Live == "live"

\* value reported for a counter that is undefined
Undefined == 0 - 1

EmptyMap == [x \in {} |-> 0]

\* delete m[k] and m[k] = v on a plain object
MapDel(m, k) == [x \in DOMAIN m \ {k} |-> m[x]]

MapPut(m, k, v) == [x \in DOMAIN m \cup {k} |-> IF x = k THEN v ELSE m[x]]

\* the order in which a configuration lists the upstreams it uses
UpstreamOrder == <<"U1", "U2", "U3">>

RECURSIVE restrictTo(_, _)
restrictTo(list, pool) ==
  IF list = <<>> THEN <<>>
  ELSE IF Head(list) \in pool
       THEN <<Head(list)>> \o restrictTo(Tail(list), pool)
       ELSE restrictTo(Tail(list), pool)

\* duplicate-free upstream lists over a pool, up to MaxProxies long
ListsOver(pool) ==
  {restrictTo(UpstreamOrder, S) :
     S \in {T \in SUBSET pool : Cardinality(T) <= MaxProxies}}

\* the upstreams an operator gives to each client: alice any of them, bob one
\* upstream that alice's pool shares
Pool == [c \in Clients |-> IF c = "alice" THEN Upstreams ELSE {"U3"}]

\* the upstream lists a configuration file or an add-client call may give to
\* each client
ListsFor(c) ==
  IF c = "alice" THEN ListsOver(Pool[c]) ELSE ListsOver(Pool[c]) \ {<<>>}

ConfigEntries(c) ==
  {[password |-> SecretOf[c], proxies |-> l] : l \in ListsFor(c)}

AllEntries == UNION {ConfigEntries(c) : c \in Clients}

\* contents a configuration file can have: client name -> {password, proxies}
ConfigChoices ==
  UNION {{f \in [S -> AllEntries] : \A c \in S : f[c] \in ConfigEntries(c)} :
         S \in SUBSET Clients}

\* ------------------------------------------------------------------------
\* State
\* ------------------------------------------------------------------------

VARIABLES
  clientsConfig,     \* client name -> [password, proxies]
  users,             \* client name -> password
  currentProxies,    \* client name -> RotationQueue
  rotationCounters,  \* client name -> RotationCounter
  activeTunnels,     \* client name -> set of registered tunnel pairs
  blockedProxies,    \* BlockedSet
  pending,           \* /rotate requests suspended in the rotation delay
  pendingInit,       \* admin mutations suspended in saveConfig()
  response,          \* the last response sent (detailed for rotation requests)
  calls,             \* ghost: rotateProxy calls per client since initializeClients
  tunnels,           \* every tunnel pair created so far, by pair number
  exchange,          \* the latest plain-HTTP exchange forwarded to an upstream
  proxyRotation      \* index variant: client name -> currentIndex

vars == <<clientsConfig, users, currentProxies, rotationCounters, activeTunnels,
          blockedProxies, pending, pendingInit, response, calls, tunnels,
          exchange, proxyRotation>>

\* all: rotateProxy calls, rotated: those that found at least 2 entries
NoCalls == [all |-> 0, rotated |-> 0]

NoResponse ==
  [op |-> "none", status |-> 0, user |-> null, newProxy |-> null,
   rotationCount |-> Undefined, closedTunnels |-> 0]

\* the response of a handler other than a rotation, kept abstract
OtherResponse ==
  [op |-> "other", status |-> 0, user |-> null, newProxy |-> null,
   rotationCount |-> Undefined, closedTunnels |-> 0]

\* no plain-HTTP request has been served yet; phase is "none", "self-api"
\* (dispatched to the management API), "rejected" (407), "no-upstream" (502),
\* "sent" (http.request issued, no response headers yet), "headers"
\* (res.writeHead done, the upstream's body is piped) or "ended"; body holds
\* what the handler itself writes into the response body
NoExchange ==
  [phase |-> "none", req |-> null, user |-> null, options |-> null,
   status |-> 0, body |-> <<>>]

\* a request answered without an upstream request
Served(phase, req, user, status, text) ==
  [phase |-> phase, req |-> req, user |-> user, options |-> null,
   status |-> status, body |-> <<text>>]

Reply(op, status, user, newProxy, rotationCount, closed) ==
  [op |-> op, status |-> status, user |-> user, newProxy |-> newProxy,
   rotationCount |-> rotationCount, closedTunnels |-> closed]

\* ------------------------------------------------------------------------
\* Rotation engine (pure parts)
\* ------------------------------------------------------------------------

\* a scan that gives up with null when every entry is blocked
RECURSIVE scanNoFailOpen(_, _, _)
scanNoFailOpen(list, blocked, i) ==
  IF i > Len(list)
  THEN null
  ELSE IF list[i] \notin blocked
       THEN list[i]
       ELSE scanNoFailOpen(list, blocked, i + 1)

\* a scan that keeps the last unblocked entry instead of returning the first
scanLastUnblocked(list, blocked, i) ==
  LET free == {j \in i..Len(list) : list[j] \notin blocked} IN
  IF free = {}
  THEN (IF Len(list) > 0 THEN list[1] ELSE null)
  ELSE list[CHOOSE j \in free : \A k \in free : k <= j]

\* the for loop of getCurrentProxy: first entry from index i on that is not
\* blocked, else list[0] || null
RECURSIVE scanUnblocked(_, _, _)
scanUnblocked(list, blocked, i) ==
  IF i > Len(list)
  THEN (IF Len(list) > 0 THEN list[1] ELSE null)
  ELSE IF list[i] \notin blocked
       THEN list[i]
       ELSE scanUnblocked(list, blocked, i + 1)

currentOf(queues, blocked, username) ==
  IF username \notin DOMAIN queues
  THEN null
  ELSE scanUnblocked(queues[username], blocked, 1)

getCurrentProxy(username) == currentOf(currentProxies, blockedProxies, username)

\* what [].shift() yields, and the element of an array at an index it does
\* not have
undefined == "undefined"

\* a rotation that exchanges the first two entries instead of moving the head
\* to the tail
shiftPushSwapsHead(list) ==
  IF Len(list) < 2 THEN list
  ELSE <<list[2], list[1]>> \o SubSeq(list, 3, Len(list))

\* a rotation that pushes the old head without shifting it off
shiftPushKeepsHead(list) ==
  IF list = <<>> THEN <<undefined>> ELSE list \o <<Head(list)>>

\* list.shift() followed by list.push() of the shifted entry
shiftPush(list) ==
  IF list = <<>> THEN <<undefined>> ELSE Tail(list) \o <<Head(list)>>

\* a rotation without the blocked-skipping scan
skipBlockedNever(list, blocked, attempts) ==
  [list |-> list, attempts |-> attempts]

\* the while loop of rotateProxy
RECURSIVE skipBlocked(_, _, _)
skipBlocked(list, blocked, attempts) ==
  IF list[1] \in blocked /\ attempts < Len(list)
  THEN skipBlocked(shiftPush(list), blocked, attempts + 1)
  ELSE [list |-> list, attempts |-> attempts]

\* the synchronous part of rotateProxy on a list of at least 2 entries
rotateList(list, blocked) == skipBlocked(shiftPush(list), blocked, 0)

\* an early return that lets a single-entry list through to the rotation
rotateIsNoopOnlyEmpty(username) ==
  \/ username \notin DOMAIN currentProxies
  \/ Len(currentProxies[username]) < 1

\* an early return that lets an empty list through to the rotation
rotateIsNoopOnlyOne(username) ==
  \/ username \notin DOMAIN currentProxies
  \/ Len(currentProxies[username]) = 1

\* true when rotateProxy returns early without rotating
rotateIsNoop(username) ==
  \/ username \notin DOMAIN currentProxies
  \/ Len(currentProxies[username]) <= 1

\* ---- the Authorization / Proxy-Authorization header ----

\* a JavaScript string as the sequence of its pieces: words without a colon,
\* and the colon itself
Colon == ":"

toText(s) ==
  IF s = "" THEN <<>>
  ELSE IF s = "sec:ret" THEN <<"sec", Colon, "ret">>
  ELSE <<s>>

\* the string a colon-free piece of text is ("" for the empty piece)
toString(text) == IF text = <<>> THEN "" ELSE text[1]

\* base64 of a text, and what Buffer.from(payload, 'base64').toString() gives:
\* the encoded text, or for a payload that is not base64 of anything the
\* bytes the lenient decoder makes of it (one word without a colon)
base64(text) == <<"base64">> \o text

\* a payload that is not the base64 of any text a client meant to send
MalformedPayload == <<"malformed">>

Garbage == <<"garbage">>

fromBase64(payload) ==
  IF payload = <<>> THEN <<>>
  ELSE IF Head(payload) = "base64" THEN Tail(payload) ELSE Garbage

\* String.prototype.split(':'): the pieces between the colons
RECURSIVE split(_)
split(text) ==
  IF text = <<>> THEN <<<<>>>>
  ELSE IF Head(text) = Colon
       THEN <<<<>>>> \o split(Tail(text))
       ELSE LET rest == split(Tail(text)) IN
            <<<<Head(text)>> \o Head(rest)>> \o Tail(rest)

\* no header at all
NoHeader == [scheme |-> "none", payload |-> <<>>]

basicAuth(u, p) ==
  [scheme |-> "Basic", payload |-> base64(toText(u) \o <<Colon>> \o toText(p))]

\* users[u] of the plain object `users`
storedSecret(u) == IF u \in DOMAIN users THEN users[u] ELSE undefined

\* the values a handler's `if (!user)` treats as failed authentication
falsy(x) == x \in {null, ""}

\* authenticate(authHeader): the decoded text is split at every colon, the
\* first piece is the user, the second (undefined when there is none) the
\* password
authenticateHeader(authHeader) ==
  IF authHeader = NoHeader \/ authHeader.scheme # "Basic"
  THEN null
  ELSE LET parts == split(fromBase64(authHeader.payload))
           u == toString(parts[1])
           p == IF Len(parts) >= 2 THEN toString(parts[2]) ELSE undefined
       IN IF storedSecret(u) = p THEN u ELSE null

\* authenticate on the well-formed header of user u with password p, neither
\* containing a colon
authenticate(u, p) ==
  IF u \in DOMAIN users /\ users[u] = p THEN u ELSE null

\* closeUserTunnels: number of pairs torn down
closeUserTunnelsCount(username) ==
  IF username \notin DOMAIN activeTunnels
  THEN 0
  ELSE Cardinality(activeTunnels[username])

closeUserTunnelsSet(username) ==
  IF username \notin DOMAIN activeTunnels
  THEN activeTunnels
  ELSE [activeTunnels EXCEPT ![username] = {}]

\* ---- sockets of the tunnel pairs ----

\* a socket is "open", "ended" (end() was called on it, its close is still to
\* come), "closed" or "destroyed"; written: the status lines the client socket
\* has been sent, in order
NewPair(user) ==
  [user |-> user, established |-> FALSE,
   clientSocket |-> "open", proxySocket |-> "open", written |-> <<>>]

Sides == {"clientSocket", "proxySocket"}

socketOf(pair, side) ==
  IF side = "clientSocket" THEN pair.clientSocket ELSE pair.proxySocket

\* the pairs in activeTunnels[username]
registered(username) ==
  IF username \in DOMAIN activeTunnels THEN activeTunnels[username] ELSE {}

\* socket.destroy(); where it raises, the socket is left as it was
destroy(state, raises) ==
  IF raises \/ state = "closed" THEN state ELSE "destroyed"

\* an end() that leaves the socket as it was
endLeavesOpen(state) == state

\* socket.end()
end(state) == IF state = "open" THEN "ended" ELSE state

\* clientSocket.write(status line) inside try/catch: the line reaches the
\* client while the socket is writable, and is dropped otherwise
write(pair, status) ==
  IF pair.clientSocket = "open" THEN Append(pair.written, status)
  ELSE pair.written

\* the first line of the upstream's first chunk: protocol token and status code
StatusLines ==
  [proto : {"HTTP/1.0", "HTTP/1.1", "SSH-2.0"}, status : {200, 204, 502}]

\* /^HTTP\/1\.[01]\s+200/i.test(line)
handshakeAccepted(line) ==
  /\ line.proto \in {"HTTP/1.0", "HTTP/1.1"}
  /\ line.status = 200

\* the sockets whose destroy() may raise: those already ended
mayRaise(username) ==
  {<<i, side>> \in registered(username) \X Sides :
     socketOf(tunnels[i], side) = "ended"}

\* a teardown that destroys only the client's side of each pair
closeUserTunnelsClientOnly(username, raising) ==
  [i \in 1..Len(tunnels) |->
     IF i \in registered(username)
     THEN [tunnels[i] EXCEPT
             !.clientSocket = destroy(@, <<i, "clientSocket">> \in raising)]
     ELSE tunnels[i]]

\* a teardown that stops at the first destroy() that raises
closeUserTunnelsAborting(username, raising) ==
  [i \in 1..Len(tunnels) |->
     IF i \in registered(username)
        /\ \A r \in raising : r[1] > i
     THEN [tunnels[i] EXCEPT !.clientSocket = destroy(@, FALSE),
                             !.proxySocket = destroy(@, FALSE)]
     ELSE tunnels[i]]

\* a teardown that destroys the sockets of every client's pairs
closeUserTunnelsEveryClient(username, raising) ==
  [i \in 1..Len(tunnels) |->
     [tunnels[i] EXCEPT !.clientSocket = destroy(@, FALSE),
                        !.proxySocket = destroy(@, FALSE)]]

\* closeUserTunnels: the sockets after the loop; each destroy() is in its own
\* try/catch, so the loop visits every pair of the set
closeUserTunnelsSockets(username, raising) ==
  [i \in 1..Len(tunnels) |->
     IF i \in registered(username)
     THEN [tunnels[i] EXCEPT
             !.clientSocket = destroy(@, <<i, "clientSocket">> \in raising),
             !.proxySocket = destroy(@, <<i, "proxySocket">> \in raising)]
     ELSE tunnels[i]]

\* closeUserTunnels(username) as a whole: sockets destroyed, set cleared
closeUserTunnels(username) ==
  /\ \E raising \in SUBSET mayRaise(username) :
       tunnels' = closeUserTunnelsSockets(username, raising)
  /\ activeTunnels' = closeUserTunnelsSet(username)

\* a cleanup callback that leaves the pair in the set
cleanupKeepsPair(i) == activeTunnels

\* the cleanup callback of a pair: activeTunnels[user]?.delete(pair)
cleanup(i) ==
  LET user == tunnels[i].user IN
  IF user \in DOMAIN activeTunnels
  THEN [activeTunnels EXCEPT ![user] = @ \ {i}]
  ELSE activeTunnels

\* a parseProxyUrl that makes an upstream out of null
parseProxyUrlOfNull(proxyUrl) ==
  IF proxyUrl \in Upstreams THEN proxyUrl ELSE "U1"

\* parseProxyUrl: null when new URL() throws, as it does for null
parseProxyUrl(proxyUrl) ==
  IF proxyUrl \in Upstreams THEN proxyUrl ELSE null

counterOrUndefined(counters, username) ==
  IF username \in DOMAIN counters THEN counters[username] ELSE Undefined

\* ------------------------------------------------------------------------
\* Initial state: the process has started with an empty configuration
\* ------------------------------------------------------------------------

Init ==
  /\ clientsConfig = EmptyMap
  /\ users = EmptyMap
  /\ currentProxies = EmptyMap
  /\ rotationCounters = EmptyMap
  /\ activeTunnels = EmptyMap
  /\ blockedProxies = {}
  /\ pending = <<>>
  /\ pendingInit = 0
  /\ response = NoResponse
  /\ calls = [c \in Clients |-> NoCalls]
  /\ tunnels = <<>>
  /\ exchange = NoExchange
  /\ proxyRotation = EmptyMap

\* ------------------------------------------------------------------------
\* src/server.js: POST /rotate
\* ------------------------------------------------------------------------

\* authentication fails: 401, nothing else happens
RotateUnauthorized(u, p) ==
  /\ authenticate(u, p) = null
  /\ response' = Reply("rotate", 401, null, null, Undefined, 0)
  /\ UNCHANGED <<clientsConfig, users, currentProxies, rotationCounters,
                 activeTunnels, blockedProxies, pending, pendingInit, calls, tunnels, exchange,
                 proxyRotation>>

\* an early return placed after list.shift(): the shifted entry is lost
RotateNoopAfterShift(u, p) ==
  LET user == authenticate(u, p) IN
  /\ user # null
  /\ rotateIsNoop(user)
  /\ closeUserTunnels(user)
  /\ currentProxies' =
       IF user \in DOMAIN currentProxies /\ currentProxies[user] # <<>>
       THEN [currentProxies EXCEPT ![user] = Tail(@)]
       ELSE currentProxies
  /\ response' = Reply("rotate", 200, user, getCurrentProxy(user),
                       counterOrUndefined(rotationCounters, user),
                       closeUserTunnelsCount(user))
  /\ UNCHANGED <<clientsConfig, users, rotationCounters,
                 blockedProxies, pending, pendingInit, calls, exchange,
                 proxyRotation>>

\* rotateProxy returns early (no list, or at most one entry): the handler runs
\* to its response without yielding to another handler
RotateNoop(u, p) ==
  LET user == authenticate(u, p) IN
  /\ user # null
  /\ rotateIsNoop(user)
  /\ closeUserTunnels(user)
  /\ response' = Reply("rotate", 200, user, getCurrentProxy(user),
                       counterOrUndefined(rotationCounters, user),
                       closeUserTunnelsCount(user))
  /\ UNCHANGED <<clientsConfig, users, currentProxies, rotationCounters,
                 blockedProxies, pending, pendingInit, calls, exchange,
                 proxyRotation>>

\* rotateProxy up to its await: shift/push, counter, blocked-skipping scan
RotateBegin(u, p) ==
  LET user == authenticate(u, p) IN
  /\ user # null
  /\ ~rotateIsNoop(user)
  /\ rotationCounters[user] < MaxRotations
  /\ Len(pending) < MaxInflight
  /\ currentProxies' =
       [currentProxies EXCEPT
          ![user] = rotateList(currentProxies[user], blockedProxies).list]
  /\ rotationCounters' = [rotationCounters EXCEPT ![user] = @ + 1]
  /\ pending' = Append(pending,
                       [user |-> user, list0 |-> Live])
  /\ UNCHANGED <<clientsConfig, users, activeTunnels, blockedProxies,
                 pendingInit, response, calls, tunnels, exchange,
                 proxyRotation>>

\* list[0] of the array a suspended rotateProxy call holds in its local `list`:
\* the client's live queue, or the array as it was when the maps dropped it
list0Of(r) == IF r.list0 = Live THEN currentProxies[r.user][1] ELSE r.list0

removeAt(s, i) == [j \in 1..(Len(s) - 1) |-> IF j < i THEN s[j] ELSE s[j + 1]]

\* after the delay: newProxy = list[0], closeUserTunnels, response
RotateFinish(i) ==
  LET r == pending[i] IN
  /\ closeUserTunnels(r.user)
  /\ response' = Reply("rotate", 200, r.user, list0Of(r),
                       counterOrUndefined(rotationCounters, r.user),
                       closeUserTunnelsCount(r.user))
  /\ pending' = removeAt(pending, i)
  /\ UNCHANGED <<clientsConfig, users, currentProxies, rotationCounters,
                 blockedProxies, pendingInit, calls, exchange,
                 proxyRotation>>

\* a rotation request that arrives while another is suspended and reads the
\* queue as it was before that other request wrote it: only the counter moves
RotateOverlappingLostUpdate(u, p) ==
  LET user == authenticate(u, p) IN
  /\ user # null
  /\ ~rotateIsNoop(user)
  /\ rotationCounters[user] < MaxRotations
  /\ Len(pending) >= MaxInflight
  /\ Len(pending) < MaxOverlap
  /\ rotationCounters' = [rotationCounters EXCEPT ![user] = @ + 1]
  /\ pending' = Append(pending, [user |-> user, list0 |-> Live])
  /\ UNCHANGED <<clientsConfig, users, currentProxies, activeTunnels,
                 blockedProxies, pendingInit, response, calls, tunnels,
                 exchange,
                 proxyRotation>>

\* POST /rotate arriving while other rotation requests are suspended in their
\* delay: rotateProxy up to its await, run to the await without interruption
RotateOverlapping(u, p) ==
  LET user == authenticate(u, p) IN
  /\ user # null
  /\ ~rotateIsNoop(user)
  /\ rotationCounters[user] < MaxRotations
  /\ Len(pending) >= MaxInflight
  /\ Len(pending) < MaxOverlap
  /\ currentProxies' =
       [currentProxies EXCEPT
          ![user] = rotateList(currentProxies[user], blockedProxies).list]
  /\ rotationCounters' = [rotationCounters EXCEPT ![user] = @ + 1]
  /\ pending' = Append(pending, [user |-> user, list0 |-> Live])
  /\ UNCHANGED <<clientsConfig, users, activeTunnels, blockedProxies,
                 pendingInit, response, calls, tunnels, exchange,
                 proxyRotation>>

\* ------------------------------------------------------------------------
\* src/server.js: GET /current
\* ------------------------------------------------------------------------

CurrentRequest(u, p) ==
  LET user == authenticate(u, p) IN
  /\ response' =
       IF user = null
       THEN Reply("current", 401, null, null, Undefined, 0)
       ELSE Reply("current", 200, user, getCurrentProxy(user),
                  IF user \in DOMAIN rotationCounters
                  THEN rotationCounters[user] ELSE 0,
                  0)
  /\ UNCHANGED <<clientsConfig, users, currentProxies, rotationCounters,
                 activeTunnels, blockedProxies, pending, pendingInit, calls, tunnels, exchange,
                 proxyRotation>>

\* ------------------------------------------------------------------------
\* src/server.js: POST /block, POST /unblock
\* ------------------------------------------------------------------------

InSeq(x, s) == \E i \in 1..Len(s) : s[i] = x

blockStatus(user, proxyUrl) ==
  IF user = null THEN 401
  ELSE IF proxyUrl = null THEN 400
  ELSE IF user \notin DOMAIN currentProxies
          \/ ~InSeq(proxyUrl, currentProxies[user]) THEN 403
  ELSE 200

BlockRequest(u, p, proxyUrl) ==
  LET user == authenticate(u, p)
      status == blockStatus(user, proxyUrl) IN
  /\ blockedProxies' =
       IF status = 200 THEN blockedProxies \cup {proxyUrl} ELSE blockedProxies
  /\ response' = OtherResponse
  /\ UNCHANGED <<clientsConfig, users, currentProxies, rotationCounters,
                 activeTunnels, pending, pendingInit, calls, tunnels, exchange,
                 proxyRotation>>

unblockStatus(user, proxyUrl) ==
  IF user = null THEN 401
  ELSE IF proxyUrl = null THEN 400
  ELSE IF proxyUrl \in blockedProxies THEN 200
  ELSE 404

UnblockRequest(u, p, proxyUrl) ==
  LET user == authenticate(u, p)
      status == unblockStatus(user, proxyUrl) IN
  /\ blockedProxies' =
       IF status = 200 THEN blockedProxies \ {proxyUrl} ELSE blockedProxies
  /\ response' = OtherResponse
  /\ UNCHANGED <<clientsConfig, users, currentProxies, rotationCounters,
                 activeTunnels, pending, pendingInit, calls, tunnels, exchange,
                 proxyRotation>>

\* ------------------------------------------------------------------------
\* src/server.js: hot reload
\* ------------------------------------------------------------------------

\* a suspended rotation keeps the array of a client whose entry is replaced
detach(reqs, gone) ==
  [i \in 1..Len(reqs) |->
     IF reqs[i].list0 = Live /\ reqs[i].user \in gone
     THEN [reqs[i] EXCEPT !.list0 = currentProxies[reqs[i].user][1]]
     ELSE reqs[i]]

\* a reload that also forgets the blocked upstreams
loadClientsConfigClearsBlocked(newConfig) ==
  /\ clientsConfig' = newConfig
  /\ users' = [c \in DOMAIN newConfig |-> newConfig[c].password]
  /\ currentProxies' =
       [c \in DOMAIN newConfig |->
          IF c \in DOMAIN currentProxies
          THEN currentProxies[c] ELSE newConfig[c].proxies]
  /\ rotationCounters' =
       [c \in DOMAIN newConfig |->
          IF c \in DOMAIN currentProxies THEN rotationCounters[c] ELSE 0]
  /\ activeTunnels' =
       [c \in DOMAIN newConfig |->
          IF c \in DOMAIN currentProxies THEN activeTunnels[c] ELSE {}]
  /\ pending' = detach(pending, DOMAIN currentProxies \ DOMAIN newConfig)
  /\ blockedProxies' = {}
  /\ UNCHANGED <<pendingInit, calls, tunnels, exchange,
                 proxyRotation>>

\* the configuration file exists and parses to newConfig
loadClientsConfig(newConfig) ==
  /\ clientsConfig' = newConfig
  /\ users' = [c \in DOMAIN newConfig |-> newConfig[c].password]
  /\ currentProxies' =
       [c \in DOMAIN newConfig |->
          IF c \in DOMAIN currentProxies
          THEN currentProxies[c] ELSE newConfig[c].proxies]
  /\ rotationCounters' =
       [c \in DOMAIN newConfig |->
          IF c \in DOMAIN currentProxies THEN rotationCounters[c] ELSE 0]
  /\ activeTunnels' =
       [c \in DOMAIN newConfig |->
          IF c \in DOMAIN currentProxies THEN activeTunnels[c] ELSE {}]
  /\ pending' = detach(pending, DOMAIN currentProxies \ DOMAIN newConfig)
  /\ UNCHANGED <<blockedProxies, pendingInit, calls, tunnels, exchange,
                 proxyRotation>>

\* the configuration file does not exist: only clientsConfig is emptied
loadClientsConfigNoFile ==
  /\ clientsConfig' = EmptyMap
  /\ UNCHANGED <<users, currentProxies, rotationCounters, activeTunnels,
                 blockedProxies, pending, pendingInit, calls, tunnels, exchange,
                 proxyRotation>>

\* POST /reload-config, or the file watcher firing
ReloadConfig(newConfig) ==
  /\ loadClientsConfig(newConfig)
  /\ response' = OtherResponse

ReloadConfigNoFile ==
  /\ loadClientsConfigNoFile
  /\ response' = OtherResponse

\* ------------------------------------------------------------------------
\* src/server.js: GET /current with any Authorization header
\* ------------------------------------------------------------------------

CurrentHeaderRequest(authHeader) ==
  LET user == authenticateHeader(authHeader) IN
  /\ response' =
       IF falsy(user)
       THEN Reply("current", 401, null, null, Undefined, 0)
       ELSE Reply("current", 200, user, getCurrentProxy(user),
                  IF user \in DOMAIN rotationCounters
                  THEN rotationCounters[user] ELSE 0,
                  0)
  /\ UNCHANGED <<clientsConfig, users, currentProxies, rotationCounters,
                 activeTunnels, blockedProxies, pending, pendingInit, calls,
                 tunnels, exchange,
                 proxyRotation>>

\* ------------------------------------------------------------------------
\* src/server.js: tenant traffic (plain HTTP and CONNECT)
\* ------------------------------------------------------------------------

\* server.on('request') for a request that is not for the management API,
\* rejected by authenticate
HttpUnauthorized(authHeader) ==
  /\ falsy(authenticateHeader(authHeader))
  /\ response' = Reply("http", 407, null, null, Undefined, 0)
  /\ UNCHANGED <<clientsConfig, users, currentProxies, rotationCounters,
                 activeTunnels, blockedProxies, pending, pendingInit, calls,
                 tunnels, exchange,
                 proxyRotation>>

\* handleHttpProxy without an upstream: 502 at once
HttpNoUpstream(authHeader) ==
  LET user == authenticateHeader(authHeader) IN
  /\ ~falsy(user)
  /\ parseProxyUrl(getCurrentProxy(user)) = null
  /\ response' = Reply("http", 502, user, null, Undefined, 0)
  /\ UNCHANGED <<clientsConfig, users, currentProxies, rotationCounters,
                 activeTunnels, blockedProxies, pending, pendingInit, calls,
                 tunnels, exchange,
                 proxyRotation>>

\* handleHttpProxy forwarding to the current upstream: the client gets the
\* upstream's answer (ok) or 502 when the upstream request fails
HttpForward(authHeader, ok) ==
  LET user == authenticateHeader(authHeader)
      up == parseProxyUrl(getCurrentProxy(user)) IN
  /\ ~falsy(user)
  /\ up # null
  /\ response' = Reply("http", IF ok THEN 200 ELSE 502, user, up, Undefined, 0)
  /\ UNCHANGED <<clientsConfig, users, currentProxies, rotationCounters,
                 activeTunnels, blockedProxies, pending, pendingInit, calls,
                 tunnels, exchange,
                 proxyRotation>>

\* server.on('connect') rejected by authenticate
ConnectUnauthorized(authHeader) ==
  /\ falsy(authenticateHeader(authHeader))
  /\ response' = Reply("connect", 407, null, null, Undefined, 0)
  /\ UNCHANGED <<clientsConfig, users, currentProxies, rotationCounters,
                 activeTunnels, blockedProxies, pending, pendingInit, calls,
                 tunnels, exchange,
                 proxyRotation>>

\* tryConnect without an upstream: 502 and the client socket is ended
ConnectNoUpstream(authHeader) ==
  LET user == authenticateHeader(authHeader) IN
  /\ ~falsy(user)
  /\ parseProxyUrl(getCurrentProxy(user)) = null
  /\ response' = Reply("connect", 502, user, null, Undefined, 0)
  /\ UNCHANGED <<clientsConfig, users, currentProxies, rotationCounters,
                 activeTunnels, blockedProxies, pending, pendingInit, calls,
                 tunnels, exchange,
                 proxyRotation>>

\* tryConnect with an upstream: the upstream connection is opened and the
\* pair is added to the client's set, if the client has one
ConnectOpen(authHeader) ==
  LET user == authenticateHeader(authHeader)
      up == parseProxyUrl(getCurrentProxy(user))
      pair == Len(tunnels) + 1 IN
  /\ ~falsy(user)
  /\ up # null
  /\ Len(tunnels) < MaxTunnels
  /\ tunnels' = Append(tunnels, NewPair(user))
  /\ activeTunnels' =
       IF user \in DOMAIN activeTunnels
       THEN [activeTunnels EXCEPT ![user] = @ \cup {pair}]
       ELSE activeTunnels
  /\ UNCHANGED <<clientsConfig, users, currentProxies, rotationCounters,
                 blockedProxies, pending, pendingInit, response, calls, exchange,
                 proxyRotation>>

\* tryConnect with an upstream, the pair keeping the upstream `up` its
\* proxySocket is connected to
ConnectOpenVia(authHeader) ==
  LET user == authenticateHeader(authHeader)
      up == parseProxyUrl(getCurrentProxy(user))
      pair == Len(tunnels) + 1 IN
  /\ ~falsy(user)
  /\ up # null
  /\ Len(tunnels) < MaxTunnels
  /\ tunnels' = Append(tunnels, NewPair(user) @@ [up |-> up])
  /\ activeTunnels' =
       IF user \in DOMAIN activeTunnels
       THEN [activeTunnels EXCEPT ![user] = @ \cup {pair}]
       ELSE activeTunnels
  /\ UNCHANGED <<clientsConfig, users, currentProxies, rotationCounters,
                 blockedProxies, pending, pendingInit, response, calls, exchange,
                 proxyRotation>>

\* proxySocket.on('data') before the tunnel is established, for a chunk whose
\* first line is `line`: 200 and the pipes, or 502 and both sockets ended
FirstChunk(i, line) ==
  /\ ~tunnels[i].established
  /\ tunnels[i].proxySocket = "open"
  /\ tunnels' =
       IF handshakeAccepted(line)
       THEN [tunnels EXCEPT ![i].established = TRUE,
                            ![i].written = write(tunnels[i], 200)]
       ELSE [tunnels EXCEPT ![i].written = write(tunnels[i], 502),
                            ![i].clientSocket = end(@),
                            ![i].proxySocket = end(@)]
  /\ UNCHANGED <<clientsConfig, users, currentProxies, rotationCounters,
                 activeTunnels, blockedProxies, pending, pendingInit, response,
                 calls, exchange,
                 proxyRotation>>

\* the upstream's first chunk begins with a 200 status line
HandshakeOk(i) ==
  \E line \in StatusLines : handshakeAccepted(line) /\ FirstChunk(i, line)

\* the upstream's first chunk is anything else: 502, both sockets ended
HandshakeRejected(i) ==
  \E line \in StatusLines : ~handshakeAccepted(line) /\ FirstChunk(i, line)

\* 'error' on the upstream socket (refused or reset connection, or its idle
\* timeout destroying it with an error), and the 'close' that follows: 502 is
\* written to the client whatever the state of the tunnel
UpstreamError(i) ==
  /\ tunnels[i].proxySocket \in {"open", "ended"}
  /\ tunnels' = [tunnels EXCEPT ![i].proxySocket = "closed",
                                ![i].written = write(tunnels[i], 502),
                                ![i].clientSocket = end(@)]
  /\ activeTunnels' = cleanup(i)
  /\ UNCHANGED <<clientsConfig, users, currentProxies, rotationCounters,
                 blockedProxies, pending, pendingInit, response, calls, exchange,
                 proxyRotation>>

\* an idle timer of the upstream socket that never fires
UpstreamTimeoutDisarmed(i) == FALSE /\ UNCHANGED vars

\* the 45 s idle timeout of the upstream socket: destroy(new Error(...)), which
\* is delivered to the 'error' handler above
UpstreamTimeout(i) == UpstreamError(i)

\* 'error' on the client socket (reset, or its idle timeout), and the 'close'
\* that follows
ClientError(i) ==
  /\ tunnels[i].clientSocket \in {"open", "ended"}
  /\ tunnels' = [tunnels EXCEPT ![i].clientSocket = "closed",
                                ![i].proxySocket = destroy(@, FALSE)]
  /\ activeTunnels' = cleanup(i)
  /\ UNCHANGED <<clientsConfig, users, currentProxies, rotationCounters,
                 blockedProxies, pending, pendingInit, response, calls, exchange,
                 proxyRotation>>

\* an idle timer of the client socket that never fires
ClientTimeoutDisarmed(i) == FALSE /\ UNCHANGED vars

\* the 45 s idle timeout of the client socket: destroy(new Error(...)), which
\* is delivered to the 'error' handler above
ClientTimeout(i) == ClientError(i)

\* a socket closes without an error (the peer finished); once the tunnel is
\* established the pipe ends the other socket
SocketClosed(i, side) ==
  /\ socketOf(tunnels[i], side) \in {"open", "ended"}
  /\ tunnels' =
       IF side = "clientSocket"
       THEN [tunnels EXCEPT
               ![i].clientSocket = "closed",
               ![i].proxySocket = IF tunnels[i].established THEN end(@) ELSE @]
       ELSE [tunnels EXCEPT
               ![i].proxySocket = "closed",
               ![i].clientSocket = IF tunnels[i].established THEN end(@) ELSE @]
  /\ activeTunnels' = cleanup(i)
  /\ UNCHANGED <<clientsConfig, users, currentProxies, rotationCounters,
                 blockedProxies, pending, pendingInit, response, calls, exchange,
                 proxyRotation>>

\* ------------------------------------------------------------------------
\* src/server.js: the request router and the plain-HTTP forwarder
\* ------------------------------------------------------------------------

\* String.prototype.toLowerCase on the words that have upper-case letters
toLowerCase(word) ==
  IF word = "LOCALHOST" THEN "localhost"
  ELSE IF word = "Proxy-Authorization" THEN "proxy-authorization"
  ELSE word

lowerText(text) == [i \in 1..Len(text) |-> toLowerCase(text[i])]

\* PUBLIC_HOST defaults to 'localhost:8080'; EXTRA_HOSTS and the RAILWAY_*
\* variables are unset
SELF_HOSTNAMES == {toString(split(<<"localhost", Colon, "8080">>)[1])}

ManagementPrefixes ==
  {"/status", "/current", "/rotate", "/block", "/unblock", "/blocked", "/myip",
   "/reload-config", "/config-status"}

\* p === '/' || p.startsWith('/status') || ...: a path is the sequence of its
\* pieces, cut after the management prefix it begins with, if any
isManagementPath(p) ==
  \/ p = <<"/">>
  \/ p # <<>> /\ p[1] \in ManagementPrefixes

\* req.url as text: origin-form is path and query, absolute-form has the
\* scheme and the host in front
urlText(url) ==
  (IF url.scheme = "" THEN <<>> ELSE <<url.scheme, url.hostname>>)
    \o url.path \o url.query

\* text.split('?')[0]
RECURSIVE beforeQuery(_)
beforeQuery(text) ==
  IF text = <<>> \/ Head(text) = "?" THEN <<>>
  ELSE <<Head(text)>> \o beforeQuery(Tail(text))

\* req.headers[name]
headerOf(headers, name) ==
  IF name \in DOMAIN headers THEN headers[name] ELSE NoHeader

\* a router that looks at the path alone
isSelfApiRequestAnyHost(req) ==
  isManagementPath(IF req.url.scheme = "" THEN beforeQuery(urlText(req.url))
                   ELSE req.url.path)

\* isSelfApiRequest(req): an absolute-form URL is judged by its own hostname
\* when that is a self-hostname, every other request by its Host header and
\* the text of req.url up to the query; new URL() throwing gives false
isSelfApiRequest(req) ==
  LET text == urlText(req.url)
      absolute == text # <<>> /\ text[1] \in {"http://", "https://"}
  IN IF absolute /\ req.url.hostname = ""
     THEN FALSE
     ELSE IF absolute /\ toLowerCase(req.url.hostname) \in SELF_HOSTNAMES
     THEN isManagementPath(req.url.path)
     ELSE IF toString(split(lowerText(req.host))[1]) \in SELF_HOSTNAMES
     THEN isManagementPath(beforeQuery(text))
     ELSE FALSE

\* user name and password of an upstream URL
CredentialsOf ==
  [x \in Upstreams |->
     IF x = "U1" THEN [username |-> "u1", password |-> "p1"]
     ELSE IF x = "U2" THEN [username |-> "u2", password |-> "p2"]
     ELSE [username |-> "u3", password |-> "p3"]]

\* `Basic ${Buffer.from(`${up.username}:${up.password}`).toString('base64')}`
upstreamAuthorization(up) ==
  basicAuth(CredentialsOf[up].username, CredentialsOf[up].password)

\* outbound headers that keep the inbound proxy-authorization beside the new one
outboundHeadersKeepInbound(headers, up) ==
  MapPut(headers, "Proxy-Authorization", upstreamAuthorization(up))

\* options.headers: the inbound headers (names in lower case) with
\* 'Proxy-Authorization' set, then `delete options.headers['proxy-authorization']`
outboundHeaders(headers, up) ==
  MapDel(MapPut(headers, "Proxy-Authorization", upstreamAuthorization(up)),
         "proxy-authorization")

\* one plain-HTTP request is followed at a time: the next is taken once the
\* exchange with the upstream is over
Idle == exchange.phase \notin {"sent", "headers"}

\* server.on('request') for a request of the management API: app(req, res);
\* the handlers of the API are the actions above
RequestSelfApi(req) ==
  /\ Idle
  /\ isSelfApiRequest(req)
  /\ exchange' = Served("self-api", req, null, 0, "")
  /\ response' = Reply("self-api", 0, null, null, Undefined, 0)
  /\ UNCHANGED <<clientsConfig, users, currentProxies, rotationCounters,
                 activeTunnels, blockedProxies, pending, pendingInit, calls,
                 tunnels,
                 proxyRotation>>

\* server.on('request') for tenant traffic that authenticate rejects: 407
RequestUnauthorized(req) ==
  /\ Idle
  /\ ~isSelfApiRequest(req)
  /\ falsy(authenticateHeader(headerOf(req.headers, "proxy-authorization")))
  /\ exchange' = Served("rejected", req, null, 407,
                        "407 Proxy Authentication Required")
  /\ response' = Reply("http", 407, null, null, Undefined, 0)
  /\ UNCHANGED <<clientsConfig, users, currentProxies, rotationCounters,
                 activeTunnels, blockedProxies, pending, pendingInit, calls,
                 tunnels,
                 proxyRotation>>

\* server.on('request') and handleHttpProxy for tenant traffic of a client
\* without an upstream: 502
RequestNoUpstream(req) ==
  LET user == authenticateHeader(headerOf(req.headers, "proxy-authorization")) IN
  /\ Idle
  /\ ~isSelfApiRequest(req)
  /\ ~falsy(user)
  /\ parseProxyUrl(getCurrentProxy(user)) = null
  /\ exchange' = Served("no-upstream", req, user, 502, "502 No upstream")
  /\ response' = Reply("http", 502, user, null, Undefined, 0)
  /\ UNCHANGED <<clientsConfig, users, currentProxies, rotationCounters,
                 activeTunnels, blockedProxies, pending, pendingInit, calls,
                 tunnels,
                 proxyRotation>>

\* server.on('request') and handleHttpProxy up to http.request(options) and
\* req.pipe(proxyReq)
RequestForward(req) ==
  LET user == authenticateHeader(headerOf(req.headers, "proxy-authorization"))
      up == parseProxyUrl(getCurrentProxy(user)) IN
  /\ Idle
  /\ ~isSelfApiRequest(req)
  /\ ~falsy(user)
  /\ up # null
  /\ exchange' =
       [phase |-> "sent", req |-> req, user |-> user,
        options |-> [hostname |-> up, path |-> req.url, method |-> req.method,
                     host |-> req.host,
                     headers |-> outboundHeaders(req.headers, up)],
        status |-> 0, body |-> <<>>]
  /\ UNCHANGED <<clientsConfig, users, currentProxies, rotationCounters,
                 activeTunnels, blockedProxies, pending, pendingInit, response,
                 calls, tunnels,
                 proxyRotation>>

\* the callback of http.request: res.writeHead(proxyRes.statusCode, ...) and
\* proxyRes.pipe(res)
ForwardResponse(statusCode) ==
  /\ exchange.phase = "sent"
  /\ exchange' = [exchange EXCEPT !.phase = "headers", !.status = statusCode]
  /\ UNCHANGED <<clientsConfig, users, currentProxies, rotationCounters,
                 activeTunnels, blockedProxies, pending, pendingInit, response,
                 calls, tunnels,
                 proxyRotation>>

\* the upstream's response ends, and the pipe ends res
ForwardEnd ==
  /\ exchange.phase = "headers"
  /\ exchange' = [exchange EXCEPT !.phase = "ended"]
  /\ response' = Reply("http", exchange.status, exchange.user,
                       exchange.options.hostname, Undefined, 0)
  /\ UNCHANGED <<clientsConfig, users, currentProxies, rotationCounters,
                 activeTunnels, blockedProxies, pending, pendingInit, calls,
                 tunnels,
                 proxyRotation>>

ProxyErrorText == "502 Bad Gateway - Proxy error"

\* proxyReq.on('error'): 502 unless the headers are sent, and in both cases
\* res.end('502 Bad Gateway - Proxy error')
ForwardError ==
  LET status == IF exchange.phase = "sent" THEN 502 ELSE exchange.status IN
  /\ exchange.phase \in {"sent", "headers"}
  /\ exchange' = [exchange EXCEPT !.phase = "ended", !.status = status,
                                  !.body = Append(@, ProxyErrorText)]
  /\ response' = Reply("http", status, exchange.user,
                       exchange.options.hostname, Undefined, 0)
  /\ UNCHANGED <<clientsConfig, users, currentProxies, rotationCounters,
                 activeTunnels, blockedProxies, pending, pendingInit, calls,
                 tunnels,
                 proxyRotation>>

\* proxyReq.on('timeout'): proxyReq.destroy(new Error('Upstream timeout')),
\* which is delivered to the 'error' handler above
ForwardTimeout == ForwardError

\* ------------------------------------------------------------------------
\* src/server.js as a whole
\* ------------------------------------------------------------------------

ProxyUrlInputs == Upstreams \cup {null}

NextServer ==
  \/ \E u \in Clients, p \in Passwords : RotateUnauthorized(u, p)
  \/ \E u \in Clients, p \in Passwords : RotateNoop(u, p)
  \/ \E u \in Clients, p \in Passwords : RotateBegin(u, p)
  \/ \E i \in 1..Len(pending) : RotateFinish(i)
  \/ \E u \in Clients, p \in Passwords : CurrentRequest(u, p)
  \/ \E u \in Clients, p \in Passwords, x \in ProxyUrlInputs : BlockRequest(u, p, x)
  \/ \E u \in Clients, p \in Passwords, x \in ProxyUrlInputs : UnblockRequest(u, p, x)
  \/ \E cfg \in ConfigChoices : ReloadConfig(cfg)
  \/ ReloadConfigNoFile

SpecServer == Init /\ [][NextServer]_vars

\* ------------------------------------------------------------------------
\* src/enhanced-proxy-server.js: initializeClients and the admin API
\* ------------------------------------------------------------------------

\* a suspended rotation keeps the array it read, whatever the maps become
detachAll(reqs) == detach(reqs, DOMAIN currentProxies)

\* a reinitialization that keeps the counters of the clients it rebuilds
initializeClientsKeepsCounters ==
  /\ users' = [c \in DOMAIN clientsConfig |-> clientsConfig[c].password]
  /\ currentProxies' = [c \in DOMAIN clientsConfig |-> clientsConfig[c].proxies]
  /\ rotationCounters' =
       [c \in DOMAIN clientsConfig |->
          IF c \in DOMAIN rotationCounters THEN rotationCounters[c] ELSE 0]
  /\ activeTunnels' =
       [c \in DOMAIN activeTunnels \cup DOMAIN clientsConfig |->
          IF c \in DOMAIN activeTunnels THEN activeTunnels[c] ELSE {}]
  /\ pending' = detachAll(pending)
  /\ calls' = [c \in Clients |-> NoCalls]

initializeClients ==
  /\ users' = [c \in DOMAIN clientsConfig |-> clientsConfig[c].password]
  /\ currentProxies' = [c \in DOMAIN clientsConfig |-> clientsConfig[c].proxies]
  /\ rotationCounters' = [c \in DOMAIN clientsConfig |-> 0]
  /\ activeTunnels' =
       [c \in DOMAIN activeTunnels \cup DOMAIN clientsConfig |->
          IF c \in DOMAIN activeTunnels THEN activeTunnels[c] ELSE {}]
  /\ pending' = detachAll(pending)
  /\ calls' = [c \in Clients |-> NoCalls]

\* POST /api/add-client up to `await saveConfig()`
AddClient(clientName, password, proxies) ==
  /\ pendingInit < MaxInflight
  /\ clientName \notin DOMAIN clientsConfig
  /\ clientsConfig' =
       MapPut(clientsConfig, clientName,
              [password |-> password, proxies |-> proxies])
  /\ pendingInit' = pendingInit + 1
  /\ UNCHANGED <<users, currentProxies, rotationCounters, activeTunnels,
                 blockedProxies, pending, response, calls, tunnels, exchange,
                 proxyRotation>>

\* DELETE /api/delete-client/:clientName (and its alias /api/remove-client)
\* up to `await saveConfig()`
DeleteClient(clientName) ==
  /\ pendingInit < MaxInflight
  /\ clientName \in DOMAIN clientsConfig
  /\ closeUserTunnels(clientName)
  /\ clientsConfig' = MapDel(clientsConfig, clientName)
  /\ pendingInit' = pendingInit + 1
  /\ UNCHANGED <<users, currentProxies, rotationCounters, blockedProxies,
                 pending, response, calls, exchange,
                 proxyRotation>>

\* POST /api/add-proxy up to `await saveConfig()`
AddProxy(clientName, proxy) ==
  /\ pendingInit < MaxInflight
  /\ clientName \in DOMAIN clientsConfig
  /\ ~InSeq(proxy, clientsConfig[clientName].proxies)
  /\ Len(clientsConfig[clientName].proxies) < MaxProxies
  /\ clientsConfig' =
       [clientsConfig EXCEPT ![clientName].proxies = Append(@, proxy)]
  /\ pendingInit' = pendingInit + 1
  /\ UNCHANGED <<users, currentProxies, rotationCounters, activeTunnels,
                 blockedProxies, pending, response, calls, tunnels, exchange,
                 proxyRotation>>

RECURSIVE without(_, _)
without(list, x) ==
  IF list = <<>> THEN <<>>
  ELSE IF Head(list) = x
       THEN without(Tail(list), x)
       ELSE <<Head(list)>> \o without(Tail(list), x)

\* DELETE /api/remove-proxy with a full proxy URL, up to `await saveConfig()`;
\* a URL the client does not have is filtered out of nothing and still saved
RemoveProxy(clientName, proxy) ==
  /\ pendingInit < MaxInflight
  /\ clientName \in DOMAIN clientsConfig
  /\ clientsConfig' =
       [clientsConfig EXCEPT ![clientName].proxies = without(@, proxy)]
  /\ pendingInit' = pendingInit + 1
  /\ UNCHANGED <<users, currentProxies, rotationCounters, activeTunnels,
                 blockedProxies, pending, response, calls, tunnels, exchange,
                 proxyRotation>>

\* an admin handler resumes after saveConfig(): initializeClients, response
AdminFinish ==
  /\ pendingInit > 0
  /\ initializeClients
  /\ pendingInit' = pendingInit - 1
  /\ response' = OtherResponse
  /\ UNCHANGED <<clientsConfig, blockedProxies, tunnels, exchange,
                 proxyRotation>>

\* src/unnamed/part_001, POST /rotate after the delay of rotateProxy:
\* closeUserTunnels, then res.json({... totalProxies:
\* currentProxies[user].length ...}); for a client the maps no longer hold
\* the argument throws a TypeError inside the async handler, nothing is sent
\* and the rejection of the handler's promise is handled by nobody
RotateFinishUnguarded(i) ==
  LET r == pending[i] IN
  /\ closeUserTunnels(r.user)
  /\ response' =
       IF r.user \in DOMAIN currentProxies
       THEN Reply("rotate", 200, r.user, list0Of(r),
                  counterOrUndefined(rotationCounters, r.user),
                  closeUserTunnelsCount(r.user))
       ELSE Reply("uncaught", 0, r.user, null, Undefined, 0)
  /\ pending' = removeAt(pending, i)
  /\ UNCHANGED <<clientsConfig, users, currentProxies, rotationCounters,
                 blockedProxies, pendingInit, calls, exchange,
                 proxyRotation>>

\* a request the admin API rejects (400, 404, 409) changes nothing
AdminRejected(clientName, proxy) ==
  /\ IF clientName \in DOMAIN clientsConfig
     THEN InSeq(proxy, clientsConfig[clientName].proxies)
     ELSE TRUE
  /\ response' = OtherResponse
  /\ UNCHANGED <<clientsConfig, users, currentProxies, rotationCounters,
                 activeTunnels, blockedProxies, pending, pendingInit, calls, tunnels, exchange,
                 proxyRotation>>

\* ------------------------------------------------------------------------
\* src/enhanced-proxy-server.js: rotation requests (rotateProxy has no delay,
\* so the handler is not interleaved with any other)
\* ------------------------------------------------------------------------

\* rotateProxy(username) and the closeUserTunnels(username) that follows it
rotateProxyNow(username) ==
  /\ calls[username].all < MaxRotations
  /\ IF rotateIsNoop(username)
     THEN /\ UNCHANGED <<currentProxies, rotationCounters, exchange,
                 proxyRotation>>
          /\ calls' = [calls EXCEPT ![username].all = @ + 1]
          /\ response' = Reply("rotate", 200, username,
                               getCurrentProxy(username),
                               counterOrUndefined(rotationCounters, username),
                               closeUserTunnelsCount(username))
     ELSE /\ currentProxies' =
               [currentProxies EXCEPT
                  ![username] =
                     rotateList(currentProxies[username], blockedProxies).list]
          /\ rotationCounters' = [rotationCounters EXCEPT ![username] = @ + 1]
          /\ calls' = [calls EXCEPT ![username].all = @ + 1,
                                    ![username].rotated = @ + 1]
          /\ response' = Reply("rotate", 200, username,
                               currentProxies'[username][1],
                               rotationCounters'[username],
                               closeUserTunnelsCount(username))
  /\ closeUserTunnels(username)
  /\ UNCHANGED <<clientsConfig, users, blockedProxies, pending, pendingInit, exchange,
                 proxyRotation>>

\* POST /api/rotate-client
RotateClient(clientName) ==
  /\ clientName \in DOMAIN clientsConfig
  /\ rotateProxyNow(clientName)

\* POST /rotate
RotateInstant(u, p) ==
  /\ authenticate(u, p) # null
  /\ rotateProxyNow(authenticate(u, p))

NextEnhanced ==
  \/ \E c \in Clients : \E l \in ListsFor(c) : AddClient(c, SecretOf[c], l)
  \/ \E c \in Clients : DeleteClient(c)
  \/ \E c \in Clients : \E x \in Pool[c] : AddProxy(c, x)
  \/ \E c \in Clients : \E x \in Pool[c] : RemoveProxy(c, x)
  \/ \E c \in Clients : \E x \in Pool[c] : AdminRejected(c, x)
  \/ AdminFinish
  \/ \E c \in Clients : RotateClient(c)
  \/ \E u \in Clients, p \in Passwords : RotateInstant(u, p)
  \/ \E u \in Clients, p \in Passwords : RotateUnauthorized(u, p)
  \/ \E u \in Clients, p \in Passwords : CurrentRequest(u, p)

SpecEnhanced == Init /\ [][NextEnhanced]_vars

\* ------------------------------------------------------------------------
\* src/unnamed/part_001: clients added and deleted while rotations are
\* suspended in their delay
\* ------------------------------------------------------------------------

NextAdminRotate ==
  \/ \E c \in Clients : \E l \in ListsFor(c) : AddClient(c, SecretOf[c], l)
  \/ \E c \in Clients : DeleteClient(c)
  \/ AdminFinish
  \/ \E u \in Clients, p \in Passwords : RotateUnauthorized(u, p)
  \/ \E u \in Clients, p \in Passwords : RotateNoop(u, p)
  \/ \E u \in Clients, p \in Passwords : RotateBegin(u, p)
  \/ \E i \in 1..Len(pending) : RotateFinishUnguarded(i)

SpecAdminRotate == Init /\ [][NextAdminRotate]_vars

\* ------------------------------------------------------------------------
\* src/server.js: authentication against the credential store
\* ------------------------------------------------------------------------

\* a name no configuration has
Ghost == "ghost"

AuthSecrets == {"secret1", "sec", "sec:ret"}

AuthNames == Clients \cup {Ghost}

\* what a client may put behind "Basic ": name:password texts, texts without
\* a colon, nothing, or something that is not base64
AuthTexts ==
  {toText(u) \o <<Colon>> \o toText(p) :
     u \in AuthNames, p \in AuthSecrets \cup {""}}
  \cup {toText(u) : u \in AuthNames}

AuthPayloads == {base64(t) : t \in AuthTexts} \cup {<<>>, MalformedPayload}

AuthHeaders ==
  {NoHeader}
  \cup {[scheme |-> sch, payload |-> pl] :
          sch \in {"Basic", "Bearer"}, pl \in AuthPayloads}

\* configuration files whose clients have any of the secrets and one upstream
AuthConfigChoices ==
  UNION {[S -> {[password |-> pw, proxies |-> l] :
                  pw \in AuthSecrets, l \in {<<>>, <<"U3">>}}] :
         S \in SUBSET Clients}

NextAuth ==
  \/ \E cfg \in AuthConfigChoices : ReloadConfig(cfg)
  \/ \E h \in AuthHeaders : CurrentHeaderRequest(h)

SpecAuth == Init /\ [][NextAuth]_vars

\* ------------------------------------------------------------------------
\* src/server.js: tunnels
\* ------------------------------------------------------------------------

\* the headers tenant requests carry: right and wrong credentials, none, and
\* a name without a colon
TenantHeaders ==
  {NoHeader, basicAuth("alice", "secret1"), basicAuth("alice", "secret2"),
   basicAuth("bob", "secret2"),
   [scheme |-> "Basic", payload |-> base64(toText(Ghost))]}

\* configuration files of the tunnel scenarios: alice with two upstreams, bob
\* with none
TunnelEntry ==
  [c \in Clients |->
     [password |-> SecretOf[c],
      proxies |-> IF c = "alice" THEN <<"U1", "U2">> ELSE <<>>]]

TunnelConfigChoices ==
  {[c \in S |-> TunnelEntry[c]] : S \in SUBSET Clients}

\* the upstream the tenant scenarios block and unblock
TunnelBlockInputs == {"U1"}

Pairs == 1..Len(tunnels)

\* tunnels and rotation
NextTunnels ==
  \/ \E cfg \in TunnelConfigChoices : ReloadConfig(cfg)
  \/ \E h \in TenantHeaders : ConnectOpen(h)
  \/ \E i \in Pairs : HandshakeOk(i)
  \/ \E i \in Pairs : HandshakeRejected(i)
  \/ \E i \in Pairs : UpstreamError(i)
  \/ \E i \in Pairs : ClientError(i)
  \/ \E i \in Pairs, side \in Sides : SocketClosed(i, side)
  \/ \E u \in Clients, p \in Passwords : RotateNoop(u, p)
  \/ \E u \in Clients, p \in Passwords : RotateBegin(u, p)
  \/ \E i \in 1..Len(pending) : RotateFinish(i)

SpecTunnels == Init /\ [][NextTunnels]_vars

\* ------------------------------------------------------------------------
\* src/server.js: overlapping rotation requests and readers
\* ------------------------------------------------------------------------

\* the configuration file of the overlap scenarios: alice with three
\* upstreams, bob with one
OverlapEntry ==
  [c \in Clients |->
     [password |-> SecretOf[c],
      proxies |-> IF c = "alice" THEN <<"U1", "U2", "U3">> ELSE <<"U3">>]]

OverlapConfigChoices == {[c \in S |-> OverlapEntry[c]] : S \in {{"alice"}, Clients}}

NextOverlap ==
  \/ \E cfg \in OverlapConfigChoices : ReloadConfig(cfg)
  \/ \E u \in Clients, p \in Passwords : RotateNoop(u, p)
  \/ \E u \in Clients, p \in Passwords : RotateBegin(u, p)
  \/ \E u \in Clients, p \in Passwords : RotateOverlapping(u, p)
  \/ \E i \in 1..Len(pending) : RotateFinish(i)
  \/ \E u \in Clients, p \in Passwords : CurrentRequest(u, p)
  \/ \E h \in TenantHeaders : ConnectOpen(h)

SpecOverlap == Init /\ [][NextOverlap]_vars

\* ------------------------------------------------------------------------
\* src/server.js: two clients with tunnels and rotations of their own
\* ------------------------------------------------------------------------

\* the configuration file of the two-client scenarios: both clients have two
\* upstreams, one of them shared
PerClientEntry ==
  [c \in Clients |->
     [password |-> SecretOf[c],
      proxies |-> IF c = "alice" THEN <<"U1", "U2">> ELSE <<"U2", "U3">>]]

PerClientConfigChoices == {PerClientEntry}

NextPerClient ==
  \/ \E cfg \in PerClientConfigChoices : ReloadConfig(cfg)
  \/ \E h \in TenantHeaders : ConnectOpen(h)
  \/ \E i \in Pairs : HandshakeOk(i)
  \/ \E i \in Pairs, side \in Sides : SocketClosed(i, side)
  \/ \E u \in Clients, p \in Passwords : RotateBegin(u, p)
  \/ \E i \in 1..Len(pending) : RotateFinish(i)

SpecPerClient == Init /\ [][NextPerClient]_vars

\* ------------------------------------------------------------------------
\* src/server.js: tunnels opened during the delay of a rotation
\* ------------------------------------------------------------------------

NextRotateRace ==
  \/ \E cfg \in OverlapConfigChoices : ReloadConfig(cfg)
  \/ \E h \in TenantHeaders : ConnectOpenVia(h)
  \/ \E i \in Pairs : HandshakeOk(i)
  \/ \E i \in Pairs, side \in Sides : SocketClosed(i, side)
  \/ \E u \in Clients, p \in Passwords : RotateBegin(u, p)
  \/ \E i \in 1..Len(pending) : RotateFinish(i)

SpecRotateRace == Init /\ [][NextRotateRace]_vars

\* ------------------------------------------------------------------------
\* src/unnamed/part_001, index-based rotation: a client's upstream is
\* clientsConfig[username].proxies[proxyRotation[username].currentIndex]
\* ------------------------------------------------------------------------

\* JavaScript NaN as a currentIndex: what parseInt gives for text that does
\* not begin with a number; every comparison with it is false
NaN == 0 - 2

\* the `username` of a request body: a client name or none
IndexUsernames == Clients \cup {null}

\* the `index` of a /set-proxy-index body: missing, a whole number, or text
\* that does not begin with a number
IndexInputs ==
  {[kind |-> "number", n |-> k] : k \in (0 - 1)..MaxProxies}
    \cup {[kind |-> "text", n |-> 0], [kind |-> "missing", n |-> 0]}

parseInt(index) == IF index.kind = "number" THEN index.n ELSE NaN

\* client.proxies[currentIndex]
proxyAt(proxies, currentIndex) ==
  IF currentIndex # NaN /\ 0 <= currentIndex /\ currentIndex < Len(proxies)
  THEN proxies[currentIndex + 1]
  ELSE undefined

\* (currentIndex + 1) % client.proxies.length
nextIndex(currentIndex, length) ==
  IF currentIndex = NaN THEN NaN ELSE (currentIndex + 1) % length

\* proxyIndex < 0 || proxyIndex >= client.proxies.length
invalidIndex(proxyIndex, length) ==
  proxyIndex # NaN /\ (proxyIndex < 0 \/ proxyIndex >= length)

\* if (!proxyRotation[username]) proxyRotation[username] = { currentIndex: 0 }
withRotation(rotation, username) ==
  IF username \in DOMAIN rotation THEN rotation
  ELSE MapPut(rotation, username, 0)

\* the forEach of loadConfig and /update-config over the clients that have
\* proxies; loadConfig resets their entry, /update-config keeps an existing one
RECURSIVE initRotation(_, _, _, _)
initRotation(rotation, config, names, reset) ==
  IF names = {} THEN rotation
  ELSE LET username == CHOOSE x \in names : TRUE
           here == IF config[username].proxies = <<>> THEN rotation
                   ELSE IF reset THEN MapPut(rotation, username, 0)
                   ELSE withRotation(rotation, username)
       IN initRotation(here, config, names \ {username}, reset)

\* !client || !client.proxies || client.proxies.length === 0
noProxies(username) ==
  \/ username \notin DOMAIN clientsConfig
  \/ clientsConfig[username].proxies = <<>>

\* getCurrentProxy(username) of the index-based variant: the value returned
getCurrentProxyByIndex(username) ==
  IF noProxies(username) THEN null
  ELSE proxyAt(clientsConfig[username].proxies,
               withRotation(proxyRotation, username)[username])

\* a response of the index-based API: newProxy carries current_proxy and
\* rotationCount carries current_index
IndexReply(op, status, username, proxy, index) ==
  Reply(op, status, username, proxy, index, 0)

\* loadConfig() at startup, before any request is served, with a
\* configuration file present (without one clientsConfig stays {})
LoadConfig(cfg) ==
  /\ clientsConfig = EmptyMap
  /\ proxyRotation = EmptyMap
  /\ response = NoResponse
  /\ clientsConfig' = cfg
  /\ proxyRotation' = initRotation(proxyRotation, cfg, DOMAIN cfg, TRUE)
  /\ UNCHANGED <<users, currentProxies, rotationCounters, activeTunnels,
                 blockedProxies, pending, pendingInit, response, calls,
                 tunnels, exchange>>

\* POST /update-config with a body that has no `clients` object
UpdateConfigInvalid ==
  /\ response' = IndexReply("update-config", 400, null, null, Undefined)
  /\ UNCHANGED <<clientsConfig, users, currentProxies, rotationCounters,
                 activeTunnels, blockedProxies, pending, pendingInit, calls,
                 tunnels, exchange, proxyRotation>>

\* POST /update-config: the configuration is replaced; saveConfig() writes
\* the file, which only the next startup reads
UpdateConfig(clients) ==
  /\ clientsConfig' = clients
  /\ proxyRotation' =
       initRotation(proxyRotation, clients, DOMAIN clients, FALSE)
  /\ response' = IndexReply("update-config", 200, null, null, Undefined)
  /\ UNCHANGED <<users, currentProxies, rotationCounters, activeTunnels,
                 blockedProxies, pending, pendingInit, calls, tunnels,
                 exchange>>

\* POST /rotate-proxy
RotateProxyByIndex(username) ==
  /\ IF username = null
     THEN /\ response' = IndexReply("rotate-proxy", 400, null, null, Undefined)
          /\ UNCHANGED proxyRotation
     ELSE IF noProxies(username)
     THEN /\ response' =
               IndexReply("rotate-proxy", 404, username, null, Undefined)
          /\ UNCHANGED proxyRotation
     ELSE LET client == clientsConfig[username]
              currentIndex ==
                nextIndex(withRotation(proxyRotation, username)[username],
                          Len(client.proxies))
          IN /\ proxyRotation' = MapPut(proxyRotation, username, currentIndex)
             /\ response' =
                  IndexReply("rotate-proxy", 200, username,
                             proxyAt(client.proxies, currentIndex),
                             currentIndex)
  /\ UNCHANGED <<clientsConfig, users, currentProxies, rotationCounters,
                 activeTunnels, blockedProxies, pending, pendingInit, calls,
                 tunnels, exchange>>

\* POST /set-proxy-index
SetProxyIndex(username, index) ==
  /\ IF username = null \/ index.kind = "missing"
     THEN /\ response' =
               IndexReply("set-proxy-index", 400, username, null, Undefined)
          /\ UNCHANGED proxyRotation
     ELSE IF noProxies(username)
     THEN /\ response' =
               IndexReply("set-proxy-index", 404, username, null, Undefined)
          /\ UNCHANGED proxyRotation
     ELSE LET client == clientsConfig[username]
              proxyIndex == parseInt(index)
          IN IF invalidIndex(proxyIndex, Len(client.proxies))
             THEN /\ response' =
                       IndexReply("set-proxy-index", 400, username, null,
                                  Undefined)
                  /\ UNCHANGED proxyRotation
             ELSE /\ proxyRotation' =
                       MapPut(proxyRotation, username, proxyIndex)
                  /\ response' =
                       IndexReply("set-proxy-index", 200, username,
                                  proxyAt(client.proxies, proxyIndex),
                                  proxyIndex)
  /\ UNCHANGED <<clientsConfig, users, currentProxies, rotationCounters,
                 activeTunnels, blockedProxies, pending, pendingInit, calls,
                 tunnels, exchange>>

\* a request of an authenticated client through /proxy or CONNECT, up to the
\* choice of the upstream: 503 when getCurrentProxy gives nothing, otherwise
\* the request goes on to the upstream (status kept abstract)
ProxyRequest(username) ==
  /\ username \in DOMAIN clientsConfig
  /\ LET proxy == getCurrentProxyByIndex(username)
     IN /\ proxyRotation' =
             IF noProxies(username) THEN proxyRotation
             ELSE withRotation(proxyRotation, username)
        /\ response' =
             IF proxy \in {null, undefined}
             THEN IndexReply("proxy", 503, username, proxy, Undefined)
             ELSE IndexReply("proxy", 0, username, proxy, Undefined)
  /\ UNCHANGED <<clientsConfig, users, currentProxies, rotationCounters,
                 activeTunnels, blockedProxies, pending, pendingInit, calls,
                 tunnels, exchange>>

NextByIndex ==
  \/ \E cfg \in ConfigChoices : LoadConfig(cfg)
  \/ \E clients \in ConfigChoices : UpdateConfig(clients)
  \/ UpdateConfigInvalid
  \/ \E username \in IndexUsernames : RotateProxyByIndex(username)
  \/ \E username \in IndexUsernames, index \in IndexInputs :
       SetProxyIndex(username, index)
  \/ \E username \in Clients : ProxyRequest(username)

SpecByIndex == Init /\ [][NextByIndex]_vars

\* CONNECT attempts and the sockets of their pairs, idle timeouts included
NextConnect ==
  \/ \E cfg \in TunnelConfigChoices : ReloadConfig(cfg)
  \/ \E h \in TenantHeaders : ConnectOpen(h)
  \/ \E i \in Pairs : HandshakeOk(i)
  \/ \E i \in Pairs : HandshakeRejected(i)
  \/ \E i \in Pairs : UpstreamError(i)
  \/ \E i \in Pairs : ClientError(i)
  \/ \E i \in Pairs : UpstreamTimeout(i)
  \/ \E i \in Pairs : ClientTimeout(i)
  \/ \E i \in Pairs, side \in Sides : SocketClosed(i, side)

SpecConnect == Init /\ [][NextConnect]_vars

\* setTimeout(45000, ...) is armed on both sockets of every pair when it is
\* made: a socket that stays idle is destroyed by its timer
SpecConnectFair ==
  /\ Init
  /\ [][NextConnect]_vars
  /\ \A i \in 1..MaxTunnels :
       /\ WF_vars(i \in Pairs /\ UpstreamTimeout(i))
       /\ WF_vars(i \in Pairs /\ ClientTimeout(i))

\* tenant requests, their failures, and the BlockedSet
NextTenant ==
  \/ \E cfg \in TunnelConfigChoices : ReloadConfig(cfg)
  \/ \E h \in TenantHeaders : HttpUnauthorized(h)
  \/ \E h \in TenantHeaders : HttpNoUpstream(h)
  \/ \E h \in TenantHeaders, ok \in BOOLEAN : HttpForward(h, ok)
  \/ \E h \in TenantHeaders : ConnectUnauthorized(h)
  \/ \E h \in TenantHeaders : ConnectNoUpstream(h)
  \/ \E h \in TenantHeaders : ConnectOpen(h)
  \/ \E i \in Pairs : HandshakeRejected(i)
  \/ \E i \in Pairs : UpstreamError(i)
  \/ \E u \in Clients, p \in Passwords : CurrentRequest(u, p)
  \/ \E u \in Clients, p \in Passwords : RotateNoop(u, p)
  \/ \E u \in Clients, p \in Passwords : RotateBegin(u, p)
  \/ \E i \in 1..Len(pending) : RotateFinish(i)
  \/ \E u \in Clients, p \in Passwords, x \in TunnelBlockInputs : BlockRequest(u, p, x)
  \/ \E u \in Clients, p \in Passwords, x \in TunnelBlockInputs : UnblockRequest(u, p, x)

SpecTenant == Init /\ [][NextTenant]_vars

\* ------------------------------------------------------------------------
\* src/server.js: routed plain-HTTP requests and their exchanges
\* ------------------------------------------------------------------------

Paths == {<<"/">>, <<"/status">>, <<"/status", "page">>, <<"/index.html">>}

OriginForm(p, q) == [scheme |-> "", hostname |-> "", path |-> p, query |-> q]

AbsoluteForm(scheme, h, p) ==
  [scheme |-> scheme, hostname |-> h, path |-> p, query |-> <<>>]

\* req.url: origin-form, or absolute-form with a host that is this server,
\* another server, or missing (new URL() throws)
Urls ==
  {OriginForm(p, <<>>) : p \in Paths}
  \cup {OriginForm(<<"/status">>, <<"?", "q">>)}
  \cup {AbsoluteForm("http://", h, p) :
          h \in {"localhost", "example.com"},
          p \in {<<"/status">>, <<"/index.html">>}}
  \cup {AbsoluteForm("http://", "", <<"/status">>),
        AbsoluteForm("https://", "LOCALHOST", <<"/status", "page">>)}

\* the Host header: missing, this server (with port and in upper case too),
\* another server
Hosts ==
  {<<>>, <<"localhost">>, <<"LOCALHOST", Colon, "8080">>, <<"example.com">>}

\* the inbound headers beside Host: Proxy-Authorization and Authorization
\* (for the origin server), each present or not
HeaderSets ==
  UNION {{f \in [S -> {basicAuth("alice", "secret1"), basicAuth("alice", "secret2"),
                       [scheme |-> "Basic", payload |-> base64(toText(Ghost))]}] :
            "authorization" \in S => f["authorization"] = basicAuth("alice", "secret2")} :
         S \in SUBSET {"proxy-authorization", "authorization"}}

\* requests without credentials, over every URL and Host header, and requests
\* with every choice of headers over a few URLs and Host headers
Requests ==
  [method : {"GET"}, url : Urls, host : Hosts, headers : {EmptyMap}]
  \cup [method : {"GET", "POST"},
        url : {OriginForm(<<"/status">>, <<>>), OriginForm(<<"/index.html">>, <<>>),
               AbsoluteForm("http://", "example.com", <<"/status">>)},
        host : {<<"localhost">>, <<"example.com">>},
        headers : HeaderSets]

\* configuration files of the forwarding scenarios: none, or alice with two
\* upstreams
ForwardConfigChoices == {EmptyMap, [c \in {"alice"} |-> TunnelEntry[c]]}

UpstreamStatuses == {200, 404}

NextForward ==
  \/ \E cfg \in ForwardConfigChoices : ReloadConfig(cfg)
  \/ \E req \in Requests : RequestSelfApi(req)
  \/ \E req \in Requests : RequestUnauthorized(req)
  \/ \E req \in Requests : RequestNoUpstream(req)
  \/ \E req \in Requests : RequestForward(req)
  \/ \E statusCode \in UpstreamStatuses : ForwardResponse(statusCode)
  \/ ForwardEnd
  \/ ForwardError
  \/ ForwardTimeout
  \/ \E u \in Clients, p \in Passwords, x \in TunnelBlockInputs : BlockRequest(u, p, x)
  \/ \E u \in Clients, p \in Passwords, x \in TunnelBlockInputs : UnblockRequest(u, p, x)

SpecForward == Init /\ [][NextForward]_vars

\* ------------------------------------------------------------------------
\* src/enhanced-proxy-server.js: tunnels and the removal of a client
\* ------------------------------------------------------------------------

NextEnhancedTunnels ==
  \/ \E c \in Clients : \E l \in ListsFor(c) : AddClient(c, SecretOf[c], l)
  \/ \E c \in Clients : DeleteClient(c)
  \/ AdminFinish
  \/ \E h \in TenantHeaders : ConnectOpen(h)
  \/ \E i \in Pairs : HandshakeOk(i)
  \/ \E i \in Pairs : UpstreamError(i)
  \/ \E c \in Clients : RotateClient(c)

SpecEnhancedTunnels == Init /\ [][NextEnhancedTunnels]_vars

\* ------------------------------------------------------------------------
\* Properties
\* ------------------------------------------------------------------------

Queue(c) == currentProxies[c]

NoneBlocked(list, blocked) == \A i \in 1..Len(list) : list[i] \notin blocked

AllBlocked(list, blocked) == \A i \in 1..Len(list) : list[i] \in blocked

\* index of the first entry of list that is not in blocked (0 if none)
FirstFree(list, blocked) ==
  LET free == {i \in 1..Len(list) : list[i] \notin blocked} IN
  IF free = {} THEN 0 ELSE CHOOSE i \in free : \A j \in free : i <= j

\* the step is a rotateProxy call for client c made by src/server.js
RotatesServer(c) ==
  \E u \in Clients, p \in Passwords :
    /\ authenticate(u, p) = c
    /\ (RotateBegin(u, p) \/ RotateNoop(u, p))

\* the step is a rotateProxy call for client c made by
\* src/enhanced-proxy-server.js
RotatesEnhanced(c) ==
  \/ RotateClient(c)
  \/ \E u \in Clients, p \in Passwords :
       authenticate(u, p) = c /\ RotateInstant(u, p)

\* list after n rotateProxy calls under a fixed BlockedSet
RECURSIVE rotateTimes(_, _, _)
rotateTimes(list, blocked, n) ==
  IF n = 0 THEN list
  ELSE rotateTimes(rotateList(list, blocked).list, blocked, n - 1)

\* C1: with a queue [U1, ..., Un], n >= 2, none of it blocked, getCurrent is U1;
\* one rotate makes the queue [U2, ..., Un, U1] and getCurrent U2.
C1_RotateAdvancesHead ==
  [][\A c \in DOMAIN currentProxies :
       (Len(Queue(c)) >= 2 /\ NoneBlocked(Queue(c), blockedProxies)) =>
         /\ getCurrentProxy(c) = Queue(c)[1]
         /\ RotatesServer(c) =>
              /\ currentProxies'[c] = Tail(Queue(c)) \o <<Queue(c)[1]>>
              /\ currentOf(currentProxies', blockedProxies', c) = Queue(c)[2]]_vars

\* scenario A after its one rotate
C1_Witness ==
  /\ "alice" \in DOMAIN currentProxies
  /\ "alice" \in DOMAIN clientsConfig
  /\ clientsConfig["alice"].proxies = <<"U1", "U2", "U3">>
  /\ currentProxies["alice"] = <<"U2", "U3", "U1">>
  /\ rotationCounters["alice"] = 1
  /\ blockedProxies = {}
  /\ getCurrentProxy("alice") = "U2"

\* C2 as claimed: for any fixed BlockedSet, N rotate calls on a queue of
\* N >= 2 entries restore its order.
C2_RingAnyBlockedSet ==
  \A c \in DOMAIN currentProxies :
    Len(Queue(c)) >= 2 =>
      rotateTimes(Queue(c), blockedProxies, Len(Queue(c))) = Queue(c)

\* C2 amended: when none of the queue's N >= 2 entries is in BlockedSet,
\* N rotate calls restore its order.
C2_RingNoneBlocked ==
  \A c \in DOMAIN currentProxies :
    (Len(Queue(c)) >= 2 /\ NoneBlocked(Queue(c), blockedProxies)) =>
      rotateTimes(Queue(c), blockedProxies, Len(Queue(c))) = Queue(c)

\* a 2-entry queue back in its configured order after two rotations
C2_Witness ==
  \E c \in DOMAIN currentProxies :
    /\ Len(Queue(c)) = 2
    /\ c \in DOMAIN clientsConfig
    /\ Queue(c) = clientsConfig[c].proxies
    /\ rotationCounters[c] = 2
    /\ NoneBlocked(Queue(c), blockedProxies)
    /\ pending = <<>>

\* C3: getCurrent returns the first entry, head to tail, that is not blocked
\* when there is one, and changes neither queue, counter nor BlockedSet.
C3_GetCurrentFirstUnblocked ==
  [][\A u \in Clients, p \in Passwords :
       LET c == authenticate(u, p) IN
       (c # null /\ c \in DOMAIN currentProxies /\ CurrentRequest(u, p)) =>
         /\ FirstFree(Queue(c), blockedProxies) # 0 =>
              response'.newProxy =
                Queue(c)[FirstFree(Queue(c), blockedProxies)]
         /\ UNCHANGED <<currentProxies, rotationCounters, blockedProxies, exchange,
                 proxyRotation>>]_vars

\* GET /current answered with the third entry, the first two being blocked
C3_Witness ==
  /\ response.op = "current"
  /\ response.status = 200
  /\ response.user \in DOMAIN currentProxies
  /\ Len(currentProxies[response.user]) = 3
  /\ currentProxies[response.user][1] \in blockedProxies
  /\ currentProxies[response.user][2] \in blockedProxies
  /\ response.newProxy = currentProxies[response.user][3]

\* C4: with every entry of a non-empty queue blocked, getCurrent returns the
\* head of the queue, never null.
C4_FailOpen ==
  \A c \in DOMAIN currentProxies :
    (Len(Queue(c)) > 0 /\ AllBlocked(Queue(c), blockedProxies)) =>
      /\ getCurrentProxy(c) = Queue(c)[1]
      /\ getCurrentProxy(c) # null

\* GET /current answered with the head of a fully blocked queue
C4_Witness ==
  /\ response.op = "current"
  /\ response.status = 200
  /\ response.user \in DOMAIN currentProxies
  /\ Len(currentProxies[response.user]) >= 2
  /\ AllBlocked(currentProxies[response.user], blockedProxies)
  /\ response.newProxy = currentProxies[response.user][1]

\* C5: after a rotate on a queue of at least 2 entries, one of them not
\* blocked, the head is not blocked; the scan takes at most Len(queue) steps,
\* also when every entry is blocked.
C5_RotateSkipsBlocked ==
  [][\A c \in DOMAIN currentProxies :
       (Len(Queue(c)) >= 2 /\ RotatesServer(c)) =>
         /\ ~AllBlocked(Queue(c), blockedProxies) =>
              currentProxies'[c][1] \notin blockedProxies
         /\ rotateList(Queue(c), blockedProxies).attempts <= Len(Queue(c))
         /\ currentProxies'[c] = rotateList(Queue(c), blockedProxies).list]_vars

\* a rotation has just moved two blocked entries behind the only free one
C5_Witness ==
  /\ pending # <<>>
  /\ pending[1].list0 = Live
  /\ Len(currentProxies[pending[1].user]) = 3
  /\ currentProxies[pending[1].user][1] \notin blockedProxies
  /\ currentProxies[pending[1].user][2] \in blockedProxies
  /\ currentProxies[pending[1].user][3] \in blockedProxies
  /\ rotationCounters[pending[1].user] = 1

\* C6: for a client with exactly 1 upstream, rotate changes neither the value
\* of getCurrent nor the queue.
C6_SingleUpstreamRotateKeepsQueue ==
  [][\A c \in DOMAIN currentProxies :
       (Len(Queue(c)) = 1 /\ RotatesServer(c)) =>
         /\ c \in DOMAIN currentProxies'
         /\ currentProxies'[c] = Queue(c)
         /\ currentOf(currentProxies', blockedProxies', c) = getCurrentProxy(c)
         /\ response'.newProxy = getCurrentProxy(c)]_vars

\* a rotate answered for a client whose only upstream is blocked
C6_Witness ==
  /\ response.op = "rotate"
  /\ response.status = 200
  /\ response.user \in DOMAIN currentProxies
  /\ Len(currentProxies[response.user]) = 1
  /\ currentProxies[response.user][1] \in blockedProxies
  /\ response.newProxy = currentProxies[response.user][1]

\* C7 as claimed: for a client with exactly 1 upstream, each rotate call
\* increments its RotationCounter by exactly 1.
C7_SingleUpstreamRotateIncrements ==
  [][\A c \in DOMAIN currentProxies :
       (Len(Queue(c)) = 1 /\ RotatesServer(c)) =>
         rotationCounters'[c] = rotationCounters[c] + 1]_vars

\* C7 amended: for a client with exactly 1 upstream, a rotate call leaves its
\* RotationCounter unchanged and reports that unchanged value.
C7_SingleUpstreamRotateKeepsCounter ==
  [][\A c \in DOMAIN currentProxies :
       (Len(Queue(c)) = 1 /\ RotatesServer(c)) =>
         /\ rotationCounters'[c] = rotationCounters[c]
         /\ response'.rotationCount = rotationCounters[c]]_vars

\* a rotate answered with rotationCount 0 for a client with one upstream
C7_Witness ==
  /\ response.op = "rotate"
  /\ response.status = 200
  /\ response.user \in DOMAIN currentProxies
  /\ Len(currentProxies[response.user]) = 1
  /\ response.rotationCount = 0
  /\ rotationCounters[response.user] = 0

\* C8: rotate on a client with an empty queue answers without an upstream
\* (null), does not throw, and leaves the queue and the counter unchanged.
C8_EmptyQueueRotate ==
  [][\A c \in DOMAIN currentProxies :
       (Len(Queue(c)) = 0 /\ RotatesServer(c)) =>
         /\ response'.op = "rotate"
         /\ response'.status = 200
         /\ response'.newProxy = null
         /\ c \in DOMAIN currentProxies'
         /\ currentProxies'[c] = <<>>
         /\ rotationCounters'[c] = rotationCounters[c]]_vars

\* a rotate answered with no upstream for a client configured with none
C8_Witness ==
  /\ response.op = "rotate"
  /\ response.status = 200
  /\ response.user \in DOMAIN currentProxies
  /\ response.user \in DOMAIN clientsConfig
  /\ clientsConfig[response.user].proxies = <<>>
  /\ currentProxies[response.user] = <<>>
  /\ response.newProxy = null

Count(list, x) == Cardinality({i \in 1..Len(list) : list[i] = x})

IsPermutation(a, b) ==
  /\ Len(a) = Len(b)
  /\ \A x \in Upstreams \cup {undefined} : Count(a, x) = Count(b, x)

\* C9: once no reinitialization is in progress, every configured client's
\* queue is a permutation of the upstream list configured for it.
C9_QueueIsPermutationOfConfig ==
  pendingInit = 0 =>
    \A c \in DOMAIN clientsConfig :
      /\ c \in DOMAIN currentProxies
      /\ IsPermutation(currentProxies[c], clientsConfig[c].proxies)

splitOnce(text) ==
  LET colons == {i \in 1..Len(text) : text[i] = Colon} IN
  IF colons = {} THEN <<text>>
  ELSE LET k == CHOOSE i \in colons : \A j \in colons : i <= j IN
       <<SubSeq(text, 1, k - 1), SubSeq(text, k + 1, Len(text))>>

\* the text behind "Basic " of a header
decodedText(authHeader) == fromBase64(authHeader.payload)

\* the header is what the Authenticator accepts: Basic scheme, base64 of
\* user:password, user in the credential store, and the whole text after the
\* first colon equal to the stored secret
ValidCredentials(authHeader) ==
  /\ authHeader # NoHeader
  /\ authHeader.scheme = "Basic"
  /\ authHeader.payload # <<>>
  /\ Head(authHeader.payload) = "base64"
  /\ LET parts == splitOnce(decodedText(authHeader)) IN
     /\ Len(parts) = 2
     /\ toString(parts[1]) \in DOMAIN users
     /\ toText(users[toString(parts[1])]) = parts[2]

\* the two-argument authenticate is authenticate on the well-formed header
AuthenticateAgrees ==
  \A u \in Clients, p \in Passwords :
    authenticate(u, p) = authenticateHeader(basicAuth(u, p))

\* C11: authenticate returns a client name only for a Basic header whose
\* decoded user is in the credential store and whose decoded password is that
\* client's secret; a missing header, another scheme, a malformed encoding, a
\* text without ':', an unknown user or a wrong secret all fail.
C11_AuthenticateOnlyValidCredentials ==
  [][\A h \in AuthHeaders :
       (CurrentHeaderRequest(h) /\ ~ValidCredentials(h)) =>
         /\ falsy(authenticateHeader(h))
         /\ response'.status = 401]_vars

\* C12: for every client in the credential store, the header
\* "Basic " + base64(name + ":" + secret) authenticates as that client, also
\* when the secret contains ':'.
C12_AuthenticateStoredSecret ==
  [][\A c \in DOMAIN users :
       CurrentHeaderRequest(basicAuth(c, users[c])) =>
         /\ authenticateHeader(basicAuth(c, users[c])) = c
         /\ response'.status = 200
         /\ response'.user = c]_vars

\* ------------------------------------------------------------------------
\* Properties of the tunnels
\* ------------------------------------------------------------------------

\* the step completes a rotation request of src/server.js for client c
RotationCompletes(c) ==
  \/ \E i \in 1..Len(pending) : pending[i].user = c /\ RotateFinish(i)
  \/ \E u \in Clients, p \in Passwords :
       authenticate(u, p) = c /\ RotateNoop(u, p)

NoSocketOpen(pair) ==
  pair.clientSocket # "open" /\ pair.proxySocket # "open"

\* C13: when a rotation request for client c completes, no socket of a pair
\* registered for c is left open (each open one is destroyed), c's tunnel set
\* is empty, and closedTunnels is the number of pairs torn down.
C13_RotationTearsDownTunnels ==
  [][\A c \in Clients :
       RotationCompletes(c) =>
         /\ \A i \in registered(c) :
              /\ NoSocketOpen(tunnels'[i])
              /\ \A side \in Sides :
                   socketOf(tunnels[i], side) = "open" =>
                     socketOf(tunnels'[i], side) = "destroyed"
         /\ c \in DOMAIN activeTunnels => activeTunnels'[c] = {}
         /\ response'.closedTunnels = Cardinality(registered(c))]_vars

\* scenario B: the one established tunnel of a client has been torn down by
\* its rotation, which reports 1
C13_Witness ==
  /\ response.op = "rotate"
  /\ response.status = 200
  /\ response.closedTunnels = 1
  /\ Len(tunnels) = 1
  /\ tunnels[1].user = response.user
  /\ tunnels[1].established
  /\ tunnels[1].clientSocket = "destroyed"
  /\ tunnels[1].proxySocket = "destroyed"
  /\ registered(response.user) = {}

\* C14: closeAll with K registered pairs attempts both sockets of every pair,
\* returns K and leaves the set empty, also when some destroy raises; a
\* closeAll that follows with no new registration returns 0.
C14_CloseAllSurvivesDestroyErrors ==
  [][\A c \in Clients :
       RotationCompletes(c) =>
         LET K == Cardinality(registered(c)) IN
         /\ response'.closedTunnels = K
         /\ \A i \in registered(c) : \A side \in Sides :
              socketOf(tunnels'[i], side) \in
                (IF socketOf(tunnels[i], side) = "ended"
                 THEN {"ended", "destroyed"} ELSE {"destroyed"})
         /\ c \in DOMAIN activeTunnels =>
              /\ c \in DOMAIN activeTunnels'
              /\ Cardinality(activeTunnels'[c]) = 0]_vars

\* a teardown of two pairs in which both destroys of the first pair raised:
\* it reported 2, the second pair is destroyed and the set is empty
C14_Witness ==
  /\ response.op = "rotate"
  /\ response.closedTunnels = 2
  /\ Len(tunnels) = 2
  /\ tunnels[1].clientSocket = "ended"
  /\ tunnels[1].proxySocket = "ended"
  /\ tunnels[2].clientSocket = "destroyed"
  /\ tunnels[2].proxySocket = "destroyed"
  /\ tunnels[1].user = response.user
  /\ tunnels[2].user = response.user
  /\ registered(response.user) = {}

\* C15: when a reload removes a client, after it none of that client's
\* tunnels is open and the client no longer authenticates.
C15_RemovedClientTunnelsClosed ==
  [][\A cfg \in TunnelConfigChoices :
       ReloadConfig(cfg) =>
         \A c \in DOMAIN clientsConfig \ DOMAIN cfg :
           /\ \A i \in Pairs : tunnels[i].user = c => NoSocketOpen(tunnels'[i])
           /\ c \notin DOMAIN users']_vars

\* the same for /api/delete-client of src/enhanced-proxy-server.js, once the
\* handler has resumed from saveConfig() and reinitialized
DeletedClientTunnelsClosed ==
  pendingInit = 0 =>
    \A i \in Pairs :
      tunnels[i].user \notin DOMAIN clientsConfig => NoSocketOpen(tunnels[i])

\* under /api/rotate-client and /rotate of src/enhanced-proxy-server.js the
\* teardown of C13 is the same
RotateClientTearsDownTunnels ==
  [][\A c \in Clients :
       RotatesEnhanced(c) =>
         /\ \A i \in registered(c) : NoSocketOpen(tunnels'[i])
         /\ c \in DOMAIN activeTunnels => activeTunnels'[c] = {}
         /\ response'.closedTunnels = Cardinality(registered(c))]_vars

\* ------------------------------------------------------------------------
\* Properties of reconfiguration and of the BlockedSet
\* ------------------------------------------------------------------------

\* C16: after a reload that changes the upstream list of an existing client,
\* its queue is the new list in configuration order and its counter is 0.
C16_ReloadResetsQueueAndCounter ==
  [][\A cfg \in ConfigChoices :
       ReloadConfig(cfg) =>
         \A c \in DOMAIN cfg \cap DOMAIN clientsConfig :
           cfg[c].proxies # clientsConfig[c].proxies =>
             /\ currentProxies'[c] = cfg[c].proxies
             /\ rotationCounters'[c] = 0]_vars

\* the step is a /block or /unblock call that the handler accepts
BlockedSetCall ==
  \E u \in Clients, p \in Passwords, x \in Upstreams :
    \/ BlockRequest(u, p, x) /\ blockStatus(authenticate(u, p), x) = 200
    \/ UnblockRequest(u, p, x) /\ unblockStatus(authenticate(u, p), x) = 200

\* C17: only accepted /block and /unblock calls change BlockedSet; rotation,
\* getCurrent, failed upstream connects and handshakes, teardown and reloads
\* leave it as it is.
C17_BlockedSetFrame ==
  [][/\ blockedProxies' # blockedProxies => BlockedSetCall
     /\ \A cfg \in TunnelConfigChoices :
          ReloadConfig(cfg) => blockedProxies' = blockedProxies
     /\ \A i \in Pairs :
          (UpstreamError(i) \/ HandshakeRejected(i)) =>
            blockedProxies' = blockedProxies]_vars

\* U1 is still blocked after the reload that removed its only client, and
\* after an upstream connection failed
C17_Witness ==
  /\ "U1" \in blockedProxies
  /\ "alice" \notin DOMAIN currentProxies
  /\ \E i \in Pairs :
       tunnels[i].user = "alice" /\ tunnels[i].proxySocket = "closed"

\* the upstream is in the client's own queue
Owns(user, proxyUrl) ==
  user \in DOMAIN currentProxies /\ InSeq(proxyUrl, currentProxies[user])

\* C18: a /block or /unblock call naming an upstream that is not the calling
\* client's is rejected and leaves BlockedSet unchanged.
C18_BlockOnlyOwnUpstreams ==
  [][\A u \in Clients, p \in Passwords, x \in Upstreams :
       LET user == authenticate(u, p) IN
       (user # null /\ ~Owns(user, x)) =>
         /\ BlockRequest(u, p, x) =>
              blockStatus(user, x) # 200 /\ blockedProxies' = blockedProxies
         /\ UnblockRequest(u, p, x) =>
              unblockStatus(user, x) # 200 /\ blockedProxies' = blockedProxies]_vars

\* ------------------------------------------------------------------------
\* Properties of tenant requests
\* ------------------------------------------------------------------------

\* the step is a tenant request (plain HTTP or CONNECT) carrying the header
TenantRequest(authHeader) ==
  \/ HttpUnauthorized(authHeader)
  \/ HttpNoUpstream(authHeader)
  \/ \E ok \in BOOLEAN : HttpForward(authHeader, ok)
  \/ ConnectUnauthorized(authHeader)
  \/ ConnectNoUpstream(authHeader)
  \/ ConnectOpen(authHeader)

\* C19: a tenant request without valid credentials is answered 407, no
\* upstream is resolved for it, no upstream connection is opened and no pair
\* is registered.
C19_UnauthenticatedTenantGets407 ==
  [][\A h \in TenantHeaders :
       (TenantRequest(h) /\ ~ValidCredentials(h)) =>
         /\ response'.status = 407
         /\ response'.newProxy = null
         /\ UNCHANGED <<tunnels, activeTunnels, exchange,
                 proxyRotation>>]_vars

\* C20: when getCurrent gives no upstream for an authenticated client, the
\* tenant request is answered 502 at once, no upstream connection is opened
\* and no pair is registered.
C20_NoUpstreamGets502 ==
  [][\A h \in TenantHeaders :
       LET user == authenticateHeader(h) IN
       (~falsy(user) /\ getCurrentProxy(user) = null /\ TenantRequest(h)) =>
         /\ response'.op \in {"http", "connect"}
         /\ response'.status = 502
         /\ response'.user = user
         /\ UNCHANGED <<tunnels, activeTunnels, exchange,
                 proxyRotation>>]_vars

\* a CONNECT of a configured client whose queue is empty was answered 502
C20_Witness ==
  /\ response.op = "connect"
  /\ response.status = 502
  /\ response.user \in DOMAIN currentProxies
  /\ currentProxies[response.user] = <<>>

\* ------------------------------------------------------------------------
\* Properties of the CONNECT handshake and of the tunnel sockets
\* ------------------------------------------------------------------------

\* an HTTP/1.x status line with a 2xx status
Is2xx(line) ==
  /\ line.proto \in {"HTTP/1.0", "HTTP/1.1"}
  /\ line.status \div 100 = 2

\* C21: any 2xx status on the upstream's first chunk establishes the tunnel:
\* the client is sent "200 Connection Established" and the sockets are piped.
C21_Any2xxEstablishes ==
  [][\A i \in Pairs : \A line \in StatusLines :
       (Is2xx(line) /\ tunnels[i].clientSocket = "open" /\ FirstChunk(i, line))
         => /\ tunnels'[i].established
            /\ tunnels'[i].written = Append(tunnels[i].written, 200)]_vars

\* what tryConnect does: status 200 alone establishes the tunnel
Status200Establishes ==
  [][\A i \in Pairs :
       /\ (HandshakeOk(i) /\ tunnels[i].clientSocket = "open")
            => /\ tunnels'[i].established
               /\ tunnels'[i].written = Append(tunnels[i].written, 200)
               /\ tunnels'[i].clientSocket = "open"
               /\ tunnels'[i].proxySocket = "open"
       /\ HandshakeRejected(i) => ~tunnels'[i].established]_vars

\* a tunnel established by a 200 status line, with the 200 passed on
Status200Witness ==
  \E i \in Pairs : tunnels[i].established /\ tunnels[i].written = <<200>>

\* C22: a non-2xx upstream status, or an upstream connection error before the
\* tunnel is established, fails the attempt: the client is sent 502 and
\* neither socket stays open.
C22_FailedAttemptGets502 ==
  [][\A i \in Pairs :
       (\/ \E line \in StatusLines : ~Is2xx(line) /\ FirstChunk(i, line)
        \/ ~tunnels[i].established /\ UpstreamError(i))
         => /\ ~tunnels'[i].established
            /\ tunnels[i].clientSocket = "open"
                 => tunnels'[i].written = Append(tunnels[i].written, 502)
            /\ tunnels'[i].clientSocket # "open"
            /\ tunnels'[i].proxySocket # "open"]_vars

\* an attempt that failed on the upstream's answer: 502 sent, both sockets ended
C22_Witness ==
  \E i \in Pairs :
    /\ ~tunnels[i].established
    /\ tunnels[i].written = <<502>>
    /\ tunnels[i].clientSocket = "ended"
    /\ tunnels[i].proxySocket = "ended"

\* ------------------------------------------------------------------------
\* Properties of the plain-HTTP forwarder and of the request router
\* ------------------------------------------------------------------------

\* the request the latest step began to serve
Serving(phase) == exchange'.phase = phase /\ exchange' # exchange

\* C23: the outbound request never carries the inbound client's
\* proxy-authentication credentials and always carries Proxy-Authorization:
\* Basic base64(user:password) of the client's current upstream; every other
\* inbound header, the method and the path are copied unchanged.
C23_OutboundCredentials ==
  [][(Serving("sent") /\ RequestForward(exchange'.req)) =>
       LET req == exchange'.req
           out == exchange'.options
           inbound == headerOf(req.headers, "proxy-authorization")
           up == parseProxyUrl(getCurrentProxy(authenticateHeader(inbound)))
           named == {k \in DOMAIN out.headers :
                       toLowerCase(k) = "proxy-authorization"}
       IN /\ out.hostname = up
          /\ named # {}
          /\ \A k \in named : /\ out.headers[k] = upstreamAuthorization(up)
                              /\ out.headers[k] # inbound
          /\ DOMAIN out.headers \ named
               = DOMAIN req.headers \ {"proxy-authorization"}
          /\ \A k \in DOMAIN out.headers \ named :
               out.headers[k] = req.headers[k]
          /\ out.host = req.host
          /\ out.method = req.method
          /\ out.path = req.url]_vars

\* a POST with an Authorization header for the origin server, forwarded to
\* the second upstream with that upstream's credentials
C23_Witness ==
  /\ exchange.phase = "sent"
  /\ exchange.req.method = "POST"
  /\ DOMAIN exchange.req.headers = {"authorization", "proxy-authorization"}
  /\ exchange.options.hostname = "U2"
  /\ DOMAIN exchange.options.headers = {"authorization", "Proxy-Authorization"}
  /\ exchange.options.headers["Proxy-Authorization"] = basicAuth("u2", "p2")

\* C24: on an upstream error or timeout the client is answered 502 if the
\* response headers are not sent yet; if they are sent, the response is
\* aborted and no further body bytes are written to it.
C24_ForwardErrorNoBodyAfterHeaders ==
  [][(ForwardError \/ ForwardTimeout) =>
       IF exchange.phase = "sent"
       THEN exchange'.status = 502 /\ response'.status = 502
       ELSE exchange'.body = exchange.body]_vars

\* the first half: before the headers are sent the answer is 502
ForwardErrorBeforeHeadersGets502 ==
  [][((ForwardError \/ ForwardTimeout) /\ exchange.phase = "sent") =>
       /\ exchange'.status = 502
       /\ exchange'.phase = "ended"
       /\ response' = Reply("http", 502, exchange.user,
                            exchange.options.hostname, Undefined, 0)]_vars

\* an upstream's 200 response into whose body the handler wrote its error text
ErrorTextInSentResponse ==
  /\ exchange.phase = "ended"
  /\ exchange.status = 200
  /\ exchange.body = <<ProxyErrorText>>

\* the host the router judges a request by: the hostname of an absolute-form
\* URL, the Host header (without port, in lower case) otherwise
IsAbsoluteForm(url) == url.scheme \in {"http://", "https://"}

HostOf(req) ==
  IF IsAbsoluteForm(req.url) THEN toLowerCase(req.url.hostname)
  ELSE toString(split(lowerText(req.host))[1])

\* the paths of the management API of src/server.js
ManagementPaths == {<<"/">>} \cup {<<p>> : p \in ManagementPrefixes}

\* tenant traffic is forwarded only with valid credentials, and without them
\* it is answered 407 and nothing is sent to an upstream
TenantTrafficAuthenticated ==
  /\ Serving("sent") =>
       ValidCredentials(headerOf(exchange'.req.headers, "proxy-authorization"))
  /\ (exchange' # exchange /\ exchange'.phase \in {"rejected", "no-upstream"}) =>
       /\ exchange'.options = null
       /\ exchange'.phase = "rejected" <=>
            falsy(authenticateHeader(headerOf(exchange'.req.headers,
                                              "proxy-authorization")))

\* C26: a request goes to the management API only when its host is a
\* self-hostname and its path is a management path; every other request is
\* tenant traffic and is authenticated before anything is forwarded.
C26_SelfApiOnlyManagementPaths ==
  [][/\ (exchange' # exchange /\ exchange'.phase \in
           {"self-api", "rejected", "no-upstream", "sent"}) =>
          (exchange'.phase = "self-api" <=>
             /\ HostOf(exchange'.req) \in SELF_HOSTNAMES
             /\ exchange'.req.url.path \in ManagementPaths)
     /\ TenantTrafficAuthenticated]_vars

\* C26 as the router decides: the path is "/" or begins with the path of a
\* management endpoint
C26_SelfApiOnlyManagementPrefixes ==
  [][/\ (exchange' # exchange /\ exchange'.phase \in
           {"self-api", "rejected", "no-upstream", "sent"}) =>
          (exchange'.phase = "self-api" <=>
             /\ HostOf(exchange'.req) \in SELF_HOSTNAMES
             /\ \/ exchange'.req.url.path = <<"/">>
                \/ exchange'.req.url.path[1] \in ManagementPrefixes)
     /\ TenantTrafficAuthenticated]_vars

\* a request with this server's Host header and a path that only begins like
\* a management path was dispatched to the API
C26_Witness ==
  /\ exchange.phase = "self-api"
  /\ exchange.req.url = OriginForm(<<"/status", "page">>, <<>>)
  /\ exchange.req.host = <<"LOCALHOST", Colon, "8080">>

\* a request with this server's Host header and another path is forwarded as
\* tenant traffic
SelfHostTenantWitness ==
  /\ exchange.phase = "sent"
  /\ exchange.req.host = <<"localhost">>
  /\ exchange.req.url = OriginForm(<<"/index.html">>, <<>>)

\* C25: when the idle timeout fires on either leg of a tunnel, that socket
\* is destroyed and the counterpart is closed as by a normal close: no status
\* line (such as 502) is written to the client.
C25_TimeoutIsNormalClose ==
  [][\A i \in Pairs :
       (UpstreamTimeout(i) \/ ClientTimeout(i)) =>
         /\ tunnels'[i].written = tunnels[i].written
         /\ NoSocketOpen(tunnels'[i])]_vars

\* the client leg alone: its timeout destroys the upstream socket and writes
\* nothing
ClientTimeoutIsNormalClose ==
  [][\A i \in Pairs :
       ClientTimeout(i) =>
         /\ tunnels'[i].written = tunnels[i].written
         /\ tunnels'[i].clientSocket = "closed"
         /\ tunnels'[i].proxySocket \in {"destroyed", "closed"}]_vars

\* an established tunnel into whose stream a 502 status line was written
\* after the 200
StatusLineInEstablishedTunnel ==
  \E i \in Pairs :
    /\ tunnels[i].established
    /\ tunnels[i].written = <<200, 502>>
    /\ tunnels[i].proxySocket = "closed"

\* the pairs of all the sets of activeTunnels
Registered == UNION {activeTunnels[c] : c \in DOMAIN activeTunnels}

SocketGone(state) == state \in {"closed", "destroyed"}

\* one endpoint is gone, the other is not
HalfOpen(i) ==
  /\ i \in Pairs
  /\ \E side \in Sides : SocketGone(socketOf(tunnels[i], side))
  /\ \E side \in Sides : ~SocketGone(socketOf(tunnels[i], side))

\* C30: once either socket of a pair has closed or errored the pair is not
\* in the registry, and its counterpart is eventually closed or destroyed: no
\* pair stays with one endpoint gone and the other not.
C30_NoHalfOpenLeak ==
  /\ [](\A i \in Pairs :
          (\E side \in Sides : SocketGone(socketOf(tunnels[i], side))) =>
            i \notin Registered)
  /\ \A i \in 1..MaxTunnels : HalfOpen(i) ~> ~HalfOpen(i)

\* the client of an attempt that awaits its handshake has gone; the upstream
\* socket is still open and the pair is no longer registered
C30_Witness ==
  /\ Len(tunnels) >= 1
  /\ ~tunnels[1].established
  /\ tunnels[1].clientSocket = "closed"
  /\ tunnels[1].proxySocket = "open"
  /\ 1 \notin Registered

\* the ended sockets of a failed attempt are eventually closed
EndedSocketsEventuallyClose ==
  \A i \in 1..MaxTunnels :
    (i \in Pairs /\ tunnels[i].written = <<502>>)
      ~> (i \in Pairs /\ SocketGone(tunnels[i].clientSocket)
                      /\ SocketGone(tunnels[i].proxySocket))

\* C27: a request whose client is deleted, or whose store is rebuilt, while
\* it is in flight completes with a not-found or 502-style result, and its
\* handler raises no uncaught exception.
C27_DeletedClientFailsGracefully ==
  [][\A i \in 1..Len(pending) :
       (RotateFinishUnguarded(i) /\ pending[i].user \notin DOMAIN users) =>
         /\ response'.op # "uncaught"
         /\ response'.status \in {404, 502}]_vars

\* a rotation of a client that is still there when the delay is over is
\* answered 200
PresentClientRotationAnswered ==
  [][\A i \in 1..Len(pending) :
       (RotateFinishUnguarded(i) /\ pending[i].user \in DOMAIN currentProxies) =>
         /\ response'.op = "rotate"
         /\ response'.status = 200]_vars

\* the handler of a rotation threw after its client was deleted
UncaughtInRotate ==
  /\ response.op = "uncaught"
  /\ response.user \notin DOMAIN users
  /\ response.user \notin DOMAIN clientsConfig

\* the step is the synchronous first half of a rotation request of client c
\* that arrives while another rotation request is suspended
OverlappingRotation(c) ==
  /\ Len(pending) >= 1
  /\ Len(pending') = Len(pending) + 1
  /\ pending'[Len(pending')].user = c

\* C28: each of two or more overlapping rotation requests of a client pops
\* the head, appends it to the tail and increments the counter in one step;
\* with nothing blocked, k rotations leave the queue advanced by k positions
\* and the counter raised by k, the second half of a request touches neither,
\* and a reader is always given the head of a queue that has every entry.
C28_RotateAtomic ==
  /\ [][\A c \in DOMAIN currentProxies :
          /\ OverlappingRotation(c) =>
               /\ currentProxies'[c] = Tail(Queue(c)) \o <<Queue(c)[1]>>
               /\ rotationCounters'[c] = rotationCounters[c] + 1
               /\ \A d \in DOMAIN currentProxies \ {c} :
                    /\ currentProxies'[d] = currentProxies[d]
                    /\ rotationCounters'[d] = rotationCounters[d]
          /\ Len(pending') < Len(pending) =>
               /\ currentProxies'[c] = currentProxies[c]
               /\ rotationCounters'[c] = rotationCounters[c]
          /\ (response' # response /\ response'.op = "current"
              /\ response'.user = c) =>
               response'.newProxy = Queue(c)[1]]_vars
  /\ [](\A c \in DOMAIN currentProxies :
          /\ Queue(c) = rotateTimes(OverlapEntry[c].proxies, {},
                                    rotationCounters[c])
          /\ IsPermutation(Queue(c), OverlapEntry[c].proxies))

\* two rotation requests of alice are suspended at once; her queue of three
\* has advanced by two and her counter is 2
C28_Witness ==
  /\ Len(pending) = 2
  /\ pending[1].user = "alice" /\ pending[2].user = "alice"
  /\ currentProxies["alice"] = <<"U3", "U1", "U2">>
  /\ rotationCounters["alice"] = 2

\* the entries of list that are not in blocked
Free(list, blocked) == {list[i] : i \in {j \in 1..Len(list) : list[j] \notin blocked}}

\* C31: for a client with at least 2 upstreams not in BlockedSet a rotate call
\* advances the current upstream: getCurrent after it differs from getCurrent
\* before it, wherever the blocked entries are in the queue.
C31_RotateAdvancesCurrent ==
  [][\A c \in DOMAIN currentProxies :
       (Cardinality(Free(Queue(c), blockedProxies)) >= 2 /\ RotatesServer(c)) =>
         currentOf(currentProxies', blockedProxies', c) # getCurrentProxy(c)]_vars

\* the same when the head of the queue is not blocked
RotateAdvancesCurrentFromFreeHead ==
  [][\A c \in DOMAIN currentProxies :
       (/\ Cardinality(Free(Queue(c), blockedProxies)) >= 2
        /\ Queue(c)[1] \notin blockedProxies
        /\ RotatesServer(c)) =>
         currentOf(currentProxies', blockedProxies', c) # getCurrentProxy(c)]_vars

\* a rotation has moved a blocked head to the tail: the current upstream is
\* the one it was before
RotationKeptCurrent ==
  \E c \in DOMAIN currentProxies :
    /\ Queue(c) = <<"U2", "U3", "U1">>
    /\ blockedProxies = {"U1"}
    /\ rotationCounters[c] = 1
    /\ getCurrentProxy(c) = "U2"

\* the per-client maps name the same clients
MapsAgree ==
  /\ DOMAIN users = DOMAIN clientsConfig
  /\ DOMAIN currentProxies = DOMAIN clientsConfig
  /\ DOMAIN rotationCounters = DOMAIN clientsConfig

\* C32: after every completed configuration load, reload or admin mutation
\* the clients that can authenticate, the clients with a queue and a counter,
\* and the configured clients are the same set.
C32_MapsAgreeAfterLoad ==
  [][((\E cfg \in ConfigChoices : ReloadConfig(cfg)) \/ ReloadConfigNoFile) =>
       MapsAgree']_vars

\* the same for a load that finds the configuration file
MapsAgreeAfterLoadOfFile ==
  [][(\E cfg \in ConfigChoices : ReloadConfig(cfg)) => MapsAgree']_vars

\* the same for the admin mutations of src/enhanced-proxy-server.js
MapsAgreeAfterAdminMutation ==
  [][AdminFinish => MapsAgree']_vars

\* the configuration is empty after a load that found no file, and alice can
\* still authenticate and rotate
EmptyConfigLiveClient ==
  /\ clientsConfig = EmptyMap
  /\ "alice" \in DOMAIN users
  /\ "alice" \in DOMAIN currentProxies
  /\ response = OtherResponse

\* C33: rotation and tunnel teardown are per-client: a rotate or a closeAll of
\* client c1 leaves the queue, the counter and the tunnel set of every other
\* client c2 as they were and destroys no socket of a tunnel of c2.
C33_RotationPerClient ==
  [][\A c1 \in DOMAIN currentProxies :
       (RotatesServer(c1) \/ RotationCompletes(c1)) =>
         \A c2 \in DOMAIN currentProxies \ {c1} :
           /\ currentProxies'[c2] = currentProxies[c2]
           /\ rotationCounters'[c2] = rotationCounters[c2]
           /\ activeTunnels'[c2] = activeTunnels[c2]
           /\ \A i \in Pairs :
                tunnels[i].user = c2 => tunnels'[i] = tunnels[i]]_vars

\* alice's rotation has destroyed her established tunnel; bob's established
\* tunnel is open and registered, his queue and counter are untouched
C33_Witness ==
  /\ response.op = "rotate"
  /\ response.user = "alice"
  /\ response.closedTunnels = 1
  /\ rotationCounters = [c \in Clients |-> IF c = "alice" THEN 1 ELSE 0]
  /\ currentProxies["bob"] = <<"U2", "U3">>
  /\ \E i, j \in Pairs :
       /\ tunnels[i].user = "alice"
       /\ tunnels[i].clientSocket = "destroyed"
       /\ tunnels[j].user = "bob"
       /\ tunnels[j].established
       /\ tunnels[j].clientSocket = "open"
       /\ tunnels[j].proxySocket = "open"
       /\ activeTunnels["bob"] = {j}

\* C34: the proxy writes one status line of its own per CONNECT attempt, 200
\* or a failure line, and once the tunnel is established it writes nothing of
\* its own into the client stream, whatever errors or timeouts follow.
C34_OneStatusLinePerAttempt ==
  \A i \in Pairs :
    /\ Len(tunnels[i].written) <= 1
    /\ tunnels[i].established => tunnels[i].written \in {<<>>, <<200>>}

\* the same for the attempts that were never established
OneStatusLineBeforeEstablished ==
  \A i \in Pairs :
    ~tunnels[i].established => tunnels[i].written \in {<<>>, <<502>>}

\* 200 is the first line an established tunnel's client is sent
EstablishedBeginsWith200 ==
  \A i \in Pairs :
    (tunnels[i].established /\ tunnels[i].written # <<>>) =>
      tunnels[i].written[1] = 200

\* C35: the newProxy and the rotationCount a rotation request reports are
\* getCurrent of its client and the client's counter at the moment it returns,
\* whatever rotations, blocks, unblocks or reloads ran during its delay.
C35_RotationReportsCurrent ==
  [][\A i \in 1..Len(pending) :
       RotateFinish(i) =>
         /\ response'.newProxy =
              currentOf(currentProxies', blockedProxies', pending[i].user)
         /\ response'.rotationCount =
              counterOrUndefined(rotationCounters', pending[i].user)]_vars

\* the counter half
RotationReportsCounter ==
  [][\A i \in 1..Len(pending) :
       RotateFinish(i) =>
         response'.rotationCount =
           counterOrUndefined(rotationCounters', pending[i].user)]_vars

\* the newProxy half when the queue the request rotated is still the client's
\* and its head is not blocked
RotationReportsFreeHead ==
  [][\A i \in 1..Len(pending) :
       (/\ RotateFinish(i)
        /\ pending[i].list0 = Live
        /\ currentProxies[pending[i].user][1] \notin blockedProxies) =>
         response'.newProxy =
           currentOf(currentProxies', blockedProxies', pending[i].user)]_vars

\* a rotation has reported an upstream that was blocked during its delay
RotationReportedBlocked ==
  /\ response.op = "rotate"
  /\ response.status = 200
  /\ response.newProxy \in blockedProxies
  /\ response.user \in DOMAIN currentProxies
  /\ getCurrentProxy(response.user) \notin blockedProxies
  /\ pending = <<>>

\* C36: a tunnel opened through the new current upstream after a rotation
\* request has rotated the queue is not torn down by that request. The queue
\* has distinct entries and is rotated fewer times than it has entries, so a
\* registered tunnel through the current head was opened after the rotation
\* step that made it the head.
C36_TeardownSparesNewTunnels ==
  [][\A i \in 1..Len(pending) :
       RotateFinish(i) =>
         \A j \in registered(pending[i].user) :
           tunnels[j].up = getCurrentProxy(pending[i].user) =>
             tunnels'[j] = tunnels[j]]_vars

\* the tunnels through the upstream the rotation left are torn down
TeardownDestroysOldTunnels ==
  [][\A i \in 1..Len(pending) :
       RotateFinish(i) =>
         \A j \in registered(pending[i].user) :
           tunnels[j].up # getCurrentProxy(pending[i].user) =>
             NoSocketOpen(tunnels'[j])]_vars

\* after one rotation the current upstream is U2, and an established tunnel
\* through U2 has been destroyed by that rotation's teardown
NewTunnelTornDown ==
  /\ response.op = "rotate"
  /\ response.user = "alice"
  /\ response.newProxy = "U2"
  /\ rotationCounters["alice"] = 1
  /\ pending = <<>>
  /\ \E j \in Pairs :
       /\ tunnels[j].up = "U2"
       /\ tunnels[j].established
       /\ tunnels[j].clientSocket = "destroyed"
       /\ tunnels[j].proxySocket = "destroyed"

\* C37: every tunnel of client c whose two sockets are open is in c's set of
\* the registry, whatever registrations, closes, rotations, removals,
\* re-additions and reloads came before.
C37_OpenTunnelsTracked ==
  \A i \in Pairs :
    (tunnels[i].clientSocket = "open" /\ tunnels[i].proxySocket = "open") =>
      i \in registered(tunnels[i].user)

\* alice was removed by a reload and configured again: her tunnel is open, her
\* new set is empty
ReaddedClientOpenTunnelUntracked ==
  /\ "alice" \in DOMAIN activeTunnels
  /\ activeTunnels["alice"] = {}
  /\ \E i \in Pairs :
       /\ tunnels[i].user = "alice"
       /\ tunnels[i].established
       /\ tunnels[i].clientSocket = "open"
       /\ tunnels[i].proxySocket = "open"

\* the attempt is over: both sockets are closed or destroyed and the pair is
\* in no set of the registry
Terminal(i) ==
  /\ i \in Pairs
  /\ SocketGone(tunnels[i].clientSocket)
  /\ SocketGone(tunnels[i].proxySocket)
  /\ i \notin Registered

IndexInRange(c) ==
  c \in DOMAIN proxyRotation =>
    /\ proxyRotation[c] # NaN
    /\ 0 <= proxyRotation[c]
    /\ proxyRotation[c] < Len(clientsConfig[c].proxies)

\* C39: every configured client with a non-empty proxy list has an integer
\* currentIndex inside the list, and getCurrentProxy gives it an entry of
\* the list
C39_CurrentIndexInRange ==
  \A c \in DOMAIN clientsConfig :
    clientsConfig[c].proxies # <<>> =>
      /\ IndexInRange(c)
      /\ \E k \in 1..Len(clientsConfig[c].proxies) :
           getCurrentProxyByIndex(c) = clientsConfig[c].proxies[k]

\* what does hold: a successful /rotate-proxy leaves an index that is inside
\* the list of the client it served, unless the index was NaN before
RotateProxyRestoresRange ==
  (response.op = "rotate-proxy" /\ response.status = 200) =>
    \/ proxyRotation[response.user] = NaN
    \/ /\ IndexInRange(response.user)
       /\ response.newProxy =
            clientsConfig[response.user].proxies[response.rotationCount + 1]

\* what does hold: a successful /set-proxy-index with a whole number leaves
\* that number, and it is inside the list
SetProxyIndexNumberInRange ==
  (response.op = "set-proxy-index" /\ response.status = 200
     /\ response.rotationCount # NaN) =>
    /\ IndexInRange(response.user)
    /\ proxyRotation[response.user] = response.rotationCount

\* the divergence: /update-config gave a client a shorter list, its index
\* points past the end and its request is answered 503 with proxies
\* configured
StaleIndexPastEnd ==
  /\ response.op = "proxy" /\ response.status = 503
  /\ response.user \in DOMAIN clientsConfig
  /\ clientsConfig[response.user].proxies # <<>>
  /\ response.user \in DOMAIN proxyRotation
  /\ proxyRotation[response.user] # NaN
  /\ proxyRotation[response.user] >= Len(clientsConfig[response.user].proxies)

\* the divergence: /set-proxy-index accepted text, the index is NaN and stays
\* NaN through /rotate-proxy
IndexIsNaN ==
  /\ response.op = "rotate-proxy" /\ response.status = 200
  /\ proxyRotation[response.user] = NaN
  /\ response.newProxy = undefined

====
